---------------------------- MODULE Spec2Model ----------------------------
(***************************************************************************)
(* Verification model of rtemka/agg: the comment tree builder of the       *)
(* gateway (domain.ToTree), the gateway handlers for POST /comments and    *)
(* GET /news/{id}, and the news store (package postgres).                  *)
(***************************************************************************)
EXTENDS Integers, Sequences, FiniteSets, TLC

(***************************************************************************)
(* Bounds of the model.                                                    *)
(***************************************************************************)
MaxLen == 3      \* longest flat comment list passed to ToTree
MaxId == 3       \* comment ids are drawn from 1..MaxId
MaxCalls == 2    \* how often ToTree is called on the same slice
MaxSeed == 12    \* most rows in the store before the first AddItems
MaxAdds == 2     \* AddItems calls in one behaviour
MaxBatch == 2    \* longest batch given to AddItems
MaxPage == 3     \* pages 1..MaxPage are read; the last one is past the end
MaxComments == 2 \* rows of table comments of the comments service
MaxConns == 2    \* connections the news server serves at the same time
MaxTicks == 3    \* fetches the poller starts in one behaviour
MaxFetch == 2    \* feeds polled, one fetch in flight for each at most
MaxValues == 2   \* capacity of the channel values
MaxErrs == 1     \* capacity of the channel errs

VARIABLES
    flat,        \* the slice as the caller built it, before the first call
    comments,    \* the slice ToTree works on (it shares the caller's array)
    m,           \* map[int64][]*Comment: id -> indices into comments
    tops,        \* counter of top-level comments
    out,         \* the slice under construction in the third loop
    i,           \* loop variable of the running loop (1-based)
    pc,          \* position inside ToTree
    returned,    \* the forests returned so far, one per call
    \* ---- gateway, one incoming request ----
    greq,        \* the incoming request: route and body
    hpc,         \* position of the handler goroutine
    calls,       \* the downstream calls issued so far, in order
    modAns,      \* what the moderation call returned to the handler
    buf,         \* bytes.Buffer b filled by the TeeReader
    written,     \* what the handler wrote to the client: status and body
    wpc,         \* position of each worker goroutine of GET /news/{id}
    wres,        \* what each worker's requester returned
    ch,          \* the result channel of GET /news/{id}
    received,    \* the values the handler has taken from ch
    news,        \* var news domain.NewsFullDetailed
    coms,        \* var comments []domain.Comment
    hctx,        \* the context c of handleNewsDitailed (5 s deadline)
    answers,     \* what makeRequest returned for each call, and what was read
    \* ---- news store (table news) and its callers ----
    store,       \* the rows of table news, in insertion order
    nextId,      \* the next value of the BIGSERIAL sequence of news.id
    adds,        \* number of AddItems calls so far
    lastBatch,   \* the items of the last AddItems call
    lastErr,     \* whether the last AddItems call returned an error
    q,           \* the last read of the store and its results
    \* ---- comments service (sqlite tables authors, comments) ----
    authors,     \* the rows of table authors
    commentsTbl, \* the rows of table comments, in insertion order
    cex,         \* the last call of the comments service and its result
    \* ---- news service, REST API ----
    nex,         \* the last request of the news API and its answer
    \* ---- news service, func run: goroutines and channels ----
    stop,        \* the signal channel: "none", "sent" or "taken"
    srvpc,       \* the goroutine that runs srv.ListenAndServe
    conns,       \* connections of srv with a request being served
    shpc,        \* the goroutine that waits on stop and shuts down
    ctx,         \* the root context of run: "live" or "cancelled"
    fetching,    \* fetches of the poller that are in flight
    ticks,       \* fetches the poller has started so far
    values,      \* items waiting in the channel values
    errs,        \* errors waiting in the channel errs
    closed,      \* whether the poller has closed values and errs
    swpc,        \* the goroutine that runs sw.WriteToStorage
    elpc,        \* the goroutine that runs errLogger
    wg,          \* the counter of the WaitGroup
    runpc,       \* func run itself: "wait" or "returned"
    \* ---- news service, decoding of a feed item ----
    feed         \* the last pubDate text decoded and the item it gave

treeVars == <<flat, comments, m, tops, out, i, pc, returned>>

gwVars == <<greq, hpc, calls, modAns, buf, written, wpc, wres, ch, received,
            news, coms, hctx, answers>>

storeVars == <<store, nextId, adds, lastBatch, lastErr, q>>

comVars == <<authors, commentsTbl, cex>>

apiVars == <<nex>>

mainVars == <<stop, srvpc, conns, shpc, ctx, fetching, ticks, values, errs,
              closed, swpc, elpc, wg, runpc>>

feedVars == <<feed>>

newsVars == <<mainVars, feedVars>>

vars == <<treeVars, gwVars, storeVars, comVars, apiVars, newsVars>>

Ids == 1..MaxId

\* reply_id: 0 (top level), an id of Ids, or an id that no comment has
ReplyIds == 0..(MaxId + 1)

(***************************************************************************)
(* domain.Comment.  Author and Text are never read by ToTree and are kept  *)
(* as carried payload; PostedAt carries the position of the comment in the *)
(* input, which makes every element of the input distinguishable.          *)
(***************************************************************************)
Comment(id, reply, posted) ==
    [Id |-> id, Author |-> "a", Text |-> "t", PostedAt |-> posted,
     ReplyID |-> reply, Replies |-> <<>>]

\* The flat list of n comments with the ids and reply ids of f.
FlatList(n, f) == [k \in 1..n |-> Comment(f[k][1], f[k][2], k)]

EmptyMap == [id \in ReplyIds |-> <<>>]

InitTree ==
    /\ \E n \in 0..MaxLen :
          \E f \in [1..n -> Ids \X ReplyIds] : flat = FlatList(n, f)
    /\ comments = flat
    /\ m = EmptyMap
    /\ tops = 0
    /\ out = <<>>
    /\ i = 1
    /\ pc = "map"
    /\ returned = <<>>

(***************************************************************************)
(* dig: recursive descent through the map.  It appends to c.Replies        *)
(* through the pointer, so it changes elements of the comments array; the  *)
(* result is the array after the call (the returned pointer is k itself).  *)
(* The map is not changed by dig.  A recursion deeper than the number of   *)
(* comments revisits an element, so it never ends: the goroutine stack     *)
(* grows until the runtime aborts the process ("stack overflow").          *)
(***************************************************************************)
Overflow == [over |-> TRUE, cs |-> <<>>]

Dug(cs) == [over |-> FALSE, cs |-> cs]

RECURSIVE dig(_, _, _, _)
RECURSIVE digRange(_, _, _, _, _, _)

\* for _, v := range kids { c.Replies = append(c.Replies, *dig(v, m)) }
digRange(cs, k, mm, kids, j, d) ==
    IF j > Len(kids) THEN Dug(cs)
    ELSE LET sub == dig(cs, kids[j], mm, d + 1)
         IN  IF sub.over THEN Overflow
             ELSE digRange([sub.cs EXCEPT ![k].Replies = Append(@, sub.cs[kids[j]])],
                           k, mm, kids, j + 1, d)

dig(cs, k, mm, d) ==
    IF d > Len(cs) THEN Overflow
    ELSE IF Len(mm[cs[k].Id]) = 0 THEN Dug(cs)
    ELSE digRange(cs, k, mm, mm[cs[k].Id], 1, d)

\* MapStep, were a reply put in front of the replies registered before it
MapStepPrepends ==
    /\ pc = "map"
    /\ i <= Len(comments)
    /\ IF comments[i].ReplyID = 0
       THEN /\ tops' = tops + 1
            /\ m' = m
       ELSE /\ tops' = tops
            /\ m' = [m EXCEPT ![comments[i].ReplyID] = <<i>> \o @]
    /\ i' = i + 1
    /\ UNCHANGED <<flat, comments, out, pc, returned>>
    /\ UNCHANGED <<gwVars, storeVars, comVars, apiVars, newsVars>>

(***************************************************************************)
(* First loop of ToTree: count the top-level comments, register every      *)
(* reply under the id it answers.  (m[id] = nil for a top-level id leaves  *)
(* every later len(m[id]) as it was.)                                      *)
(***************************************************************************)
MapStep ==
    /\ pc = "map"
    /\ i <= Len(comments)
    /\ IF comments[i].ReplyID = 0
       THEN /\ tops' = tops + 1
            /\ m' = m
       ELSE /\ tops' = tops
            /\ m' = [m EXCEPT ![comments[i].ReplyID] = Append(@, i)]
    /\ i' = i + 1
    /\ UNCHANGED <<flat, comments, out, pc, returned>>
    /\ UNCHANGED <<gwVars, storeVars, comVars, apiVars, newsVars>>

MapDone ==
    /\ pc = "map"
    /\ i > Len(comments)
    /\ pc' = "inline"
    /\ i' = 1
    /\ UNCHANGED <<flat, comments, m, tops, out, returned>>
    /\ UNCHANGED <<gwVars, storeVars, comVars, apiVars, newsVars>>

\* InlineStep, were the map entry kept after its replies were appended
InlineStepKeepsEntry ==
    /\ pc = "inline"
    /\ i <= Len(comments)
    /\ LET id == comments[i].Id
           res == IF Len(m[id]) # 0
                  THEN digRange(comments, i, m, m[id], 1, 1)
                  ELSE Dug(comments)
       IN  IF res.over
           THEN /\ pc' = "overflow"
                /\ UNCHANGED <<comments, m, i>>
           ELSE /\ comments' = res.cs
                /\ m' = m
                /\ i' = i + 1
                /\ pc' = pc
    /\ UNCHANGED <<flat, tops, out, returned>>
    /\ UNCHANGED <<gwVars, storeVars, comVars, apiVars, newsVars>>

(***************************************************************************)
(* Second loop: for every comment with registered replies, append the dug  *)
(* copy of each reply, then clear the map entry.                           *)
(***************************************************************************)
InlineStep ==
    /\ pc = "inline"
    /\ i <= Len(comments)
    /\ LET id == comments[i].Id
           res == IF Len(m[id]) # 0
                  THEN digRange(comments, i, m, m[id], 1, 1)
                  ELSE Dug(comments)
       IN  IF res.over
           THEN /\ pc' = "overflow"
                /\ UNCHANGED <<comments, m, i>>
           ELSE /\ comments' = res.cs
                /\ m' = [m EXCEPT ![id] = <<>>]
                /\ i' = i + 1
                /\ pc' = pc
    /\ UNCHANGED <<flat, tops, out, returned>>
    /\ UNCHANGED <<gwVars, storeVars, comVars, apiVars, newsVars>>

InlineDone ==
    /\ pc = "inline"
    /\ i > Len(comments)
    /\ pc' = "emit"
    /\ i' = 1
    /\ out' = <<>>
    /\ UNCHANGED <<flat, comments, m, tops, returned>>
    /\ UNCHANGED <<gwVars, storeVars, comVars, apiVars, newsVars>>

\* EmitStep, were every comment copied to the output
EmitStepEveryComment ==
    /\ pc = "emit"
    /\ i <= Len(comments)
    /\ out' = Append(out, comments[i])
    /\ i' = i + 1
    /\ UNCHANGED <<flat, comments, m, tops, pc, returned>>
    /\ UNCHANGED <<gwVars, storeVars, comVars, apiVars, newsVars>>

\* EmitStep, were a reply to a missing comment promoted to a root
EmitStepOrphansAsRoots ==
    /\ pc = "emit"
    /\ i <= Len(comments)
    /\ out' = IF \/ comments[i].ReplyID = 0
                 \/ \A k \in 1..Len(comments) :
                       comments[k].Id # comments[i].ReplyID
              THEN Append(out, comments[i]) ELSE out
    /\ i' = i + 1
    /\ UNCHANGED <<flat, comments, m, tops, pc, returned>>
    /\ UNCHANGED <<gwVars, storeVars, comVars, apiVars, newsVars>>

(***************************************************************************)
(* Third loop: copy the top-level comments to the output, in input order.  *)
(***************************************************************************)
EmitStep ==
    /\ pc = "emit"
    /\ i <= Len(comments)
    /\ out' = IF comments[i].ReplyID = 0 THEN Append(out, comments[i]) ELSE out
    /\ i' = i + 1
    /\ UNCHANGED <<flat, comments, m, tops, pc, returned>>
    /\ UNCHANGED <<gwVars, storeVars, comVars, apiVars, newsVars>>

Return ==
    /\ pc = "emit"
    /\ i > Len(comments)
    /\ pc' = "done"
    /\ returned' = Append(returned, out)
    /\ UNCHANGED <<flat, comments, m, tops, out, i>>
    /\ UNCHANGED <<gwVars, storeVars, comVars, apiVars, newsVars>>

(***************************************************************************)
(* The caller calls ToTree again with the same slice.                      *)
(***************************************************************************)
CallAgain ==
    /\ pc = "done"
    /\ Len(returned) < MaxCalls
    /\ m' = EmptyMap
    /\ tops' = 0
    /\ out' = <<>>
    /\ i' = 1
    /\ pc' = "map"
    /\ UNCHANGED <<flat, comments, returned>>
    /\ UNCHANGED <<gwVars, storeVars, comVars, apiVars, newsVars>>

NextTree ==
    \/ MapStep
    \/ MapDone
    \/ InlineStep
    \/ InlineDone
    \/ EmitStep
    \/ Return
    \/ CallAgain


(***************************************************************************)
(* Vocabulary of the properties of ToTree.  A comment of the input is      *)
(* named by its position k in flat (every copy carries it as PostedAt).    *)
(***************************************************************************)
Idx(cs) == 1..Len(cs)

TopIdx(cs) == { k \in Idx(cs) : cs[k].ReplyID = 0 }

DistinctIds(cs) == \A a, b \in Idx(cs) : a # b => cs[a].Id # cs[b].Id

RECURSIVE IdxFrom(_, _, _)
\* positions k >= from of the comments that answer id, in input order
IdxFrom(cs, id, from) ==
    IF from > Len(cs) THEN <<>>
    ELSE IF cs[from].ReplyID = id
         THEN <<from>> \o IdxFrom(cs, id, from + 1)
         ELSE IdxFrom(cs, id, from + 1)

ChildIdx(cs, id) == IdxFrom(cs, id, 1)

RECURSIVE AttachedWithin(_, _, _)
\* the comments whose reply chain reaches a top-level comment in <= n steps
AttachedWithin(cs, n, acc) ==
    IF n = 0 THEN acc
    ELSE AttachedWithin(cs, n - 1,
            acc \cup { k \in Idx(cs) :
                         \E p \in acc : cs[p].Id = cs[k].ReplyID })

Attached(cs) == AttachedWithin(cs, Len(cs), TopIdx(cs))

\* a comment that answers an id no comment of the input has
Orphans(cs) ==
    { k \in Idx(cs) : /\ cs[k].ReplyID # 0
                      /\ \A p \in Idx(cs) : cs[p].Id # cs[k].ReplyID }

RECURSIVE OrphanLedWithin(_, _, _)
OrphanLedWithin(cs, n, acc) ==
    IF n = 0 THEN acc
    ELSE OrphanLedWithin(cs, n - 1,
            acc \cup { k \in Idx(cs) :
                         \E p \in acc : cs[p].Id = cs[k].ReplyID })

\* the orphans and every comment whose reply chain leads to an orphan
OrphanLed(cs) == OrphanLedWithin(cs, Len(cs), Orphans(cs))

\* a reply cycle: a comment that is neither attached nor led by an orphan
NoCycle(cs) == Idx(cs) = Attached(cs) \cup OrphanLed(cs)

RECURSIVE Nodes(_)
\* every node of a forest, at any depth, in pre-order
Nodes(forest) ==
    IF forest = <<>> THEN <<>>
    ELSE <<Head(forest)>> \o Nodes(Head(forest).Replies) \o Nodes(Tail(forest))

\* how often comment k of the input occurs in the forest
Occ(forest, k) ==
    LET ns == Nodes(forest)
    IN  Cardinality({ p \in DOMAIN ns : ns[p].PostedAt = k })

PostedSeq(s) == [j \in 1..Len(s) |-> s[j].PostedAt]

FirstPos(s, k) == CHOOSE p \in DOMAIN s : s[p] = k /\ \A r \in 1..(p - 1) : s[r] # k

RECURSIVE Tree(_, _, _)
\* the reply tree of comment k: its replies in input order, each with its tree
Tree(cs, k, fuel) ==
    LET kids == ChildIdx(cs, cs[k].Id)
    IN  [cs[k] EXCEPT !.Replies =
            IF fuel = 0 THEN <<>>
            ELSE [j \in 1..Len(kids) |-> Tree(cs, kids[j], fuel - 1)]]

FirstCallDone == pc = "done" /\ Len(returned) = 1

(***************************************************************************)
(* C1: in the forest ToTree returns, the roots are exactly the elements of *)
(* the input with reply_id = 0, each once, and no element with             *)
(* reply_id # 0 is a root.                                                 *)
(***************************************************************************)
C1_RootsAreTopLevel ==
    pc = "done" =>
        /\ Len(out) = Cardinality(TopIdx(flat))
        /\ tops = Len(out)
        /\ \A j \in DOMAIN out : out[j].ReplyID = 0
        /\ \A k \in TopIdx(flat) :
              Cardinality({ j \in DOMAIN out : out[j].PostedAt = k }) = 1

C1_Witness ==
    /\ pc = "done"
    /\ Len(out) = 2
    /\ Len(flat) = 3
    /\ \E k \in Idx(flat) : flat[k].ReplyID # 0 /\ k \in Attached(flat)

(***************************************************************************)
(* C2: for an input with pairwise distinct ids and no reply cycle, every   *)
(* reply occurs at most once in the forest; a reply whose chain leads to a *)
(* root occurs exactly once, as a direct reply of the comment it answers,  *)
(* and carries its complete subtree.                                       *)
(***************************************************************************)
C2_RepliesPlacedOnce ==
    (FirstCallDone /\ DistinctIds(flat) /\ NoCycle(flat)) =>
        \A k \in Idx(flat) \ TopIdx(flat) :
            /\ Occ(out, k) <= 1
            /\ k \in Attached(flat) =>
                 /\ Occ(out, k) = 1
                 /\ LET ns == Nodes(out)
                    IN  /\ \E p \in DOMAIN ns :
                              /\ ns[p].Id = flat[k].ReplyID
                              /\ \E r \in DOMAIN ns[p].Replies :
                                    ns[p].Replies[r].PostedAt = k
                        /\ \A p \in DOMAIN ns :
                              ns[p].PostedAt = k =>
                                  ns[p] = Tree(flat, k, Len(flat))

\* a chain root <- reply <- reply given with the deepest reply first
C2_Witness ==
    /\ FirstCallDone
    /\ DistinctIds(flat)
    /\ Len(flat) = 3
    /\ flat[3].ReplyID = 0
    /\ flat[2].ReplyID = flat[3].Id
    /\ flat[1].ReplyID = flat[2].Id
    /\ Len(out) = 1
    /\ Len(out[1].Replies) = 1
    /\ Len(out[1].Replies[1].Replies) = 1

(***************************************************************************)
(* C3: ToTree terminates on every finite input, reply cycles included:     *)
(* the recursion of dig never runs away.                                   *)
(***************************************************************************)
C3_Terminates == pc # "overflow"

(***************************************************************************)
(* C4: ToTree is pure: when it returns, every element of the input is as   *)
(* it was (replies included), and a second call on the same list returns   *)
(* a forest equal to the first.                                            *)
(***************************************************************************)
C4_Pure ==
    /\ pc = "done" => comments = flat
    /\ Len(returned) = 2 => returned[1] = returned[2]

(***************************************************************************)
(* C5: ToTree is stable: two comments with the same reply_id keep their    *)
(* input order among the replies of the comment they answer, and two       *)
(* top-level comments keep it among the roots.                             *)
(***************************************************************************)
StableIn(s) ==
    LET ps == PostedSeq(s)
    IN  /\ \A a, b \in Idx(flat) :
              ( /\ a < b
                /\ flat[a].ReplyID = flat[b].ReplyID
                /\ \E p \in DOMAIN ps : ps[p] = a
                /\ \E p \in DOMAIN ps : ps[p] = b )
              => FirstPos(ps, a) < FirstPos(ps, b)
        /\ (FirstCallDone /\ DistinctIds(flat)) =>
              \A p, r \in DOMAIN ps : p < r => ps[p] < ps[r]

C5_Stable ==
    pc = "done" =>
        /\ StableIn(out)
        /\ LET ns == Nodes(out)
           IN  \A p \in DOMAIN ns : StableIn(ns[p].Replies)

\* two roots and two replies to the same root, the replies given first
C5_Witness ==
    /\ FirstCallDone
    /\ Len(out) = 1
    /\ Len(out[1].Replies) = 2
    /\ out[1].PostedAt = 3
    /\ PostedSeq(out[1].Replies) = <<1, 2>>

(***************************************************************************)
(* C6: an orphan and every comment whose reply chain leads to an orphan is *)
(* absent from the forest, as a root and as a descendant; the other        *)
(* comments are placed as if the orphans were not there.  (With repeated   *)
(* ids a comment can answer an orphan and a placed comment at once; it is  *)
(* orphan-led only when no chain of it reaches a root.)                    *)
(***************************************************************************)
C6_OrphansDropped ==
    FirstCallDone =>
        /\ \A k \in OrphanLed(flat) \ Attached(flat) : Occ(out, k) = 0
        /\ DistinctIds(flat) =>
              LET roots == ChildIdx(flat, 0)
              IN  out = [j \in 1..Len(roots) |-> Tree(flat, roots[j], Len(flat))]

\* a root with a reply, next to an orphan: forest of one root with one reply
C6_Witness ==
    /\ FirstCallDone
    /\ DistinctIds(flat)
    /\ Len(flat) = 3
    /\ Orphans(flat) # {}
    /\ Cardinality(OrphanLed(flat)) = 1
    /\ Len(out) = 1
    /\ Len(out[1].Replies) = 1

(***************************************************************************)
(*                              The gateway                                *)
(*                                                                         *)
(* One incoming request is followed through its handler.  A body is a      *)
(* sequence of chunks; a JSON document is complete when all its chunks     *)
(* were read.                                                              *)
(***************************************************************************)
Services == {"news", "comments", "commscheck"}

\* request bodies a client may POST to /comments
CleanBody == <<"{", "text:hello", "}">>
BannedBody == <<"{", "text:qwerty", "}">>
TrailingBody == <<"{", "text:hello", "}", "\n">>
MalformedBody == <<"text">>

PostBodies == {CleanBody, BannedBody, TrailingBody, MalformedBody}

\* response bodies of the services
AllowedDoc == <<"{", "response:allowed", "}">>
BannedDoc == <<"{", "response:banned", "}">>
ErrDoc == <<"{", "error", "}">>
CreatedDoc == <<"{", "id", "}">>
ItemDoc == <<"{", "item", "}">>
NotFoundDoc == <<"\"not found\"">>
ListDoc == <<"[", "comments", "]">>
CyclicListDoc == <<"[", "comments:cycle", "]">>
NullDoc == <<"null">>
CompositeDoc == <<"{", "item+forest", "}">>

Prefixes(b) == { SubSeq(b, 1, k) : k \in 0..Len(b) }

\* the transport failed (connection refused, reset, 5 s deadline exceeded)
TransportErr == [err |-> TRUE, status |-> 0, body |-> <<>>]

Answer(st, b) == [err |-> FALSE, status |-> st, body |-> b]

NoAnswer == [err |-> FALSE, status |-> 0, body |-> <<>>]

\* an instance that fails without running its handler
Unavailable == Answer(500, ErrDoc)

\* number of chunks json.Decoder needs to return the first value or fail
DecoderNeeds(b) == IF b[1] = "{" THEN 3 ELSE 1

(***************************************************************************)
(* commscheck: handleCommentCheck, with Banned of swearcheck.go.           *)
(***************************************************************************)
Banned(b) == b[2] = "text:qwerty"

handleCommentCheck(b) ==
    IF b[1] # "{" THEN Answer(400, ErrDoc)
    ELSE IF Banned(b) THEN Answer(400, BannedDoc)
    ELSE Answer(200, AllowedDoc)

\* comments service: POST /comments and GET /comments?news-id=N
CommentsPostAnswers(b) ==
    IF Len(b) < 3 \/ b[1] # "{" THEN {Answer(400, ErrDoc)}
    ELSE {Answer(201, CreatedDoc), Answer(400, ErrDoc), Answer(500, ErrDoc)}

CommentsGetAnswers ==
    {Answer(200, ListDoc), Answer(200, CyclicListDoc), Answer(200, NullDoc),
     Answer(400, ErrDoc), Answer(500, ErrDoc)}

\* news service: GET /news (itemsHandler)
PageDoc == <<"{", "page", "}">>

NewsListAnswers ==
    {Answer(200, PageDoc), Answer(204, PageDoc), Answer(400, ErrDoc),
     Answer(500, ErrDoc)}

\* news service: GET /news/{id} (itemHandler)
NewsGetAnswers ==
    {Answer(200, ItemDoc), Answer(404, NotFoundDoc), Answer(500, ErrDoc)}

(***************************************************************************)
(* makeRequest cancels the context of the call when it returns (defer      *)
(* cancel()), before the caller reads resp.Body.  The transport then       *)
(* closes the connection: the caller reads what was already buffered, the  *)
(* whole body or only a part of it, and then gets an error.                *)
(***************************************************************************)
ReadBody(b) == Prefixes(b)

\* defer cancel(): a live context is cancelled, an expired one stays so
Cancelled(c) == IF c = "live" THEN "cancelled" ELSE c

\* makeRequest: c, cancel := context.WithTimeout(...); defer cancel().  The
\* context of the call when makeRequest has returned resp to its caller.
makeRequest == Cancelled("live")

\* one returned call: the answer's status, the context of the call when the
\* caller reads the body, whether the caller reads it, and whether it gets
\* the whole of it
Returned(ans, reads, read) ==
    [err |-> ans.err, status |-> ans.status, c |-> makeRequest,
     reads |-> reads, whole |-> (read = ans.body)]

NoReturn == [err |-> FALSE, status |-> 0, c |-> "none", reads |-> FALSE,
             whole |-> TRUE]

\* values sent over the result channel
ErrValue == [kind |-> "error", val |-> "err"]

NewsValue(v) == [kind |-> "news", val |-> v]

CommentsValue(v) == [kind |-> "comments", val |-> v]

NoValue == [kind |-> "none", val |-> "none"]

\* jsonDecFunc[domain.NewsFullDetailed] on the bytes that were read
DecodeNews(read) ==
    IF read = ItemDoc THEN NewsValue("item")
    ELSE IF read = ErrDoc THEN NewsValue("zero")
    ELSE ErrValue

\* jsonDecFunc[[]domain.Comment] on the bytes that were read
DecodeComments(read) ==
    IF read = ListDoc THEN CommentsValue("list")
    ELSE IF read = CyclicListDoc THEN CommentsValue("cyclic")
    ELSE IF read = NullDoc THEN CommentsValue("nil")
    ELSE ErrValue

Workers == {"news", "comments"}

\* a channel with room for one result only
ChanCapOne == Cardinality(Workers) - 1

\* ch := make(chan any, len(urls)): the two URLs differ in host and path
ChanCap == Cardinality(Workers)

(***************************************************************************)
(* URLs.  A string is a sequence of characters.  url.Values maps a key to  *)
(* its values in order; a key without values is absent.  A raw query is    *)
(* the sequence of its key=value pairs, the values escaped.                *)
(***************************************************************************)
Keys == {"news-id", "page", "request-id"}

\* url.Values.Encode writes the keys in sorted order
SortedKeys == <<"news-id", "page", "request-id">>

RECURSIVE QueryEscape(_)
\* url.QueryEscape: a space becomes +, a + becomes %2B
QueryEscape(str) ==
    IF str = <<>> THEN <<>>
    ELSE (CASE Head(str) = " " -> <<"+">>
            [] Head(str) = "+" -> <<"%", "2", "B">>
            [] OTHER -> <<Head(str)>>) \o QueryEscape(Tail(str))

RECURSIVE QueryUnescape(_)
\* url.QueryUnescape: a + becomes a space, %2B becomes +
QueryUnescape(esc) ==
    IF esc = <<>> THEN <<>>
    ELSE IF Head(esc) = "+" THEN <<" ">> \o QueryUnescape(Tail(esc))
    ELSE IF Len(esc) >= 3 /\ SubSeq(esc, 1, 3) = <<"%", "2", "B">>
         THEN <<"+">> \o QueryUnescape(SubSeq(esc, 4, Len(esc)))
    ELSE <<Head(esc)>> \o QueryUnescape(Tail(esc))

Pair(k, esc) == [key |-> k, val |-> esc]

RECURSIVE ValuesOf(_, _)
\* url.ParseQuery, the values of one key in the order of the raw query
ValuesOf(raw, k) ==
    IF raw = <<>> THEN <<>>
    ELSE (IF Head(raw).key = k THEN <<QueryUnescape(Head(raw).val)>> ELSE <<>>)
         \o ValuesOf(Tail(raw), k)

\* r.URL.Query()
ParseQuery(raw) == [k \in Keys |-> ValuesOf(raw, k)]

\* url.Values.Get: the first value of the key, "" when there is none
Get(v, k) == IF v[k] = <<>> THEN <<>> ELSE v[k][1]

\* url.Values.Add, in the place of Set
Add(v, k, x) == [v EXCEPT ![k] = Append(v[k], x)]

\* url.Values.Set: the key gets this one value
Set(v, k, x) == [v EXCEPT ![k] = <<x>>]

RECURSIVE EncodeFrom(_, _)
EncodeFrom(v, j) ==
    IF j > Len(SortedKeys) THEN <<>>
    ELSE LET k == SortedKeys[j]
         IN  [n \in 1..Len(v[k]) |-> Pair(k, QueryEscape(v[k][n]))]
             \o EncodeFrom(v, j + 1)

\* url.Values.Encode
Encode(v) == EncodeFrom(v, 1)

\* the raw queries a client may send
R1 == <<"r", "1">>
R2 == <<"r", "2">>
RPlus == <<"r", "+", " ">>

RawQueries ==
    { rp \o np \o pp :
        rp \in {<<>>,
                <<Pair("request-id", <<>>)>>,
                <<Pair("request-id", R1)>>,
                <<Pair("request-id", R2), Pair("request-id", R1)>>,
                <<Pair("request-id", QueryEscape(RPlus))>>},
        np \in {<<>>, <<Pair("news-id", <<"9">>)>>},
        pp \in {<<>>, <<Pair("page", <<"2">>)>>} }

\* the {id} segment of /news/{id}, as the router hands it over (decoded)
PathIds == {<<"7">>, <<"7", "+">>}

letters ==
    <<"a", "b", "c", "d", "e", "f", "g", "h", "i", "j", "k", "l", "m",
      "n", "o", "p", "q", "r", "s", "t", "u", "v", "w", "x", "y", "z",
      "A", "B", "C", "D", "E", "F", "G", "H", "I", "J", "K", "L", "M",
      "N", "O", "P", "Q", "R", "S", "T", "U", "V", "W", "X", "Y", "Z">>

nums == <<"1", "2", "3", "4", "5", "6", "7", "8", "9", "0">>

\* the states the global source of math/rand may be in when randStr runs
Seeds == {1, 2}

\* rand.Intn(n), the j-th draw from the source in state seed
Intn(seed, j, n) == (seed * 31 + j * (7 + 10 * seed)) % n

\* randStr(n): a digit at every even index, a letter at every odd one
randStr(n, seed) ==
    [j \in 1..n |->
        IF (j - 1) % 2 = 0
        THEN nums[Intn(seed, j, Len(nums)) + 1]
        ELSE letters[Intn(seed, j, Len(letters)) + 1]]

\* requestIDMiddleware: the id of the query, or a generated one
requestIDMiddleware(raw, seed) ==
    LET rid == Get(ParseQuery(raw), "request-id")
    IN  IF rid = <<>> THEN randStr(18, seed) ELSE rid

\* serviceURL, were the request-id of the context not set on the query
serviceURLKeepsQuery(r, name, path) ==
    LET q0 == ParseQuery(r.rawQuery)
        q1 == IF r.hasId THEN Set(q0, "news-id", r.id) ELSE q0
    IN  [host |-> name, path |-> path, rawQuery |-> Encode(q1)]

\* api.serviceURL(r, name, path)
serviceURL(r, name, path) ==
    LET q0 == ParseQuery(r.rawQuery)
        q1 == Set(q0, "request-id", r.rid)
        q2 == IF r.hasId THEN Set(q1, "news-id", r.id) ELSE q1
    IN  [host |-> name, path |-> path, rawQuery |-> Encode(q2)]

\* a downstream call: makeRequest(&u, method, body)
Call(svc, method, body, u) ==
    [svc |-> svc, method |-> method, body |-> body, url |-> u]

\* api.WriteJSONError(w, err, http.StatusInternalServerError)
InternalError == [status |-> 500, body |-> ErrDoc]

\* the incoming request after requestIDMiddleware and the router
Request(route, body, raw, hasId, id, seed) ==
    [route |-> route, body |-> body, rawQuery |-> raw, hasId |-> hasId,
     id |-> id, rid |-> requestIDMiddleware(raw, seed)]

NoRequest == Request("none", <<>>, <<>>, FALSE, <<>>, 1)

InitGateway ==
    /\ greq = NoRequest
    /\ hpc = "idle"
    /\ calls = <<>>
    /\ modAns = NoAnswer
    /\ buf = <<>>
    /\ written = <<>>
    /\ wpc = [w \in Workers |-> "none"]
    /\ wres = [w \in Workers |-> NoValue]
    /\ ch = <<>>
    /\ received = <<>>
    /\ news = NoValue
    /\ coms = NoValue
    /\ hctx = "none"
    /\ answers = [svc \in Services |-> NoReturn]

\* the generated id depends on the source only when the query has none
SeedsFor(raw) ==
    IF Get(ParseQuery(raw), "request-id") = <<>> THEN Seeds ELSE {1}

\* the router hands a request to its handler
Receive ==
    /\ hpc = "idle"
    /\ \E raw \in RawQueries : \E seed \in SeedsFor(raw) :
          \/ \E b \in PostBodies :
                greq' = Request("POST /comments", b, raw, FALSE, <<>>, seed)
          \/ \E id \in PathIds :
                greq' = Request("GET /news/{id}", <<>>, raw, TRUE, id, seed)
          \/ greq' = Request("GET /news", <<>>, raw, FALSE, <<>>, seed)
    /\ hpc' = "received"
    /\ UNCHANGED <<calls, modAns, buf, written, wpc, wres, ch, received,
                   news, coms, hctx>>
    /\ UNCHANGED <<answers, treeVars, storeVars, comVars, apiVars, newsVars>>

(***************************************************************************)
(* handleCommentCreate: the moderation call, fed through the TeeReader.    *)
(***************************************************************************)
CheckCall ==
    /\ hpc = "received"
    /\ greq.route = "POST /comments"
    /\ calls' = Append(calls, Call("commscheck", "POST", greq.body,
                               serviceURL(greq, "commscheck", <<"comments">>)))
    /\ hpc' = "check"
    /\ UNCHANGED <<greq, modAns, buf, written, wpc, wres, ch, received,
                   news, coms, hctx>>
    /\ UNCHANGED <<answers, treeVars, storeVars, comVars, apiVars, newsVars>>

\* makeRequest returns; the handler answers or goes on to the comments call.
\* The buffer holds what the transport had read from the body by then: at
\* least what the moderation handler decoded before it answered.
CheckReturn ==
    /\ hpc = "check"
    /\ \E ans \in {handleCommentCheck(greq.body), Unavailable, TransportErr} :
       \E teed \in Prefixes(greq.body) :
          /\ (ans = handleCommentCheck(greq.body)
                 => Len(teed) >= DecoderNeeds(greq.body))
          /\ modAns' = ans
          /\ buf' = teed
          /\ IF ans.err
             THEN /\ written' = Append(written, InternalError)
                  /\ answers' = [answers EXCEPT !["commscheck"] =
                                     Returned(ans, FALSE, ans.body)]
                  /\ hpc' = "done"
             ELSE IF ans.status # 200
             THEN /\ \E read \in ReadBody(ans.body) :
                        /\ written' = Append(written,
                                       [status |-> ans.status, body |-> read])
                        /\ answers' = [answers EXCEPT !["commscheck"] =
                                     Returned(ans, TRUE, read)]
                  /\ hpc' = "done"
             ELSE /\ written' = written
                  /\ answers' = [answers EXCEPT !["commscheck"] =
                                     Returned(ans, FALSE, ans.body)]
                  /\ hpc' = "allowed"
    /\ UNCHANGED <<greq, calls, wpc, wres, ch, received, news, coms, hctx>>
    /\ UNCHANGED <<treeVars, storeVars, comVars, apiVars, newsVars>>

\* api.forwardReq(&u, http.MethodPost, bytes.NewReader(b.Bytes()), w, r)
ForwardCall ==
    /\ hpc = "allowed"
    /\ calls' = Append(calls, Call("comments", "POST", buf,
                               serviceURL(greq, "comments", <<"comments">>)))
    /\ hpc' = "forward"
    /\ UNCHANGED <<greq, modAns, buf, written, wpc, wres, ch, received,
                   news, coms, hctx>>
    /\ UNCHANGED <<answers, treeVars, storeVars, comVars, apiVars, newsVars>>

\* handleNewsLatest: GET /news and GET /news/latest go to the news service
LatestCall ==
    /\ hpc = "received"
    /\ greq.route = "GET /news"
    /\ calls' = Append(calls, Call("news", "GET", <<>>,
                               serviceURL(greq, "news", <<"news">>)))
    /\ hpc' = "forward"
    /\ UNCHANGED <<greq, modAns, buf, written, wpc, wres, ch, received,
                   news, coms, hctx>>
    /\ UNCHANGED <<answers, treeVars, storeVars, comVars, apiVars, newsVars>>

\* what the service of the forwarded call may answer
ForwardAnswers ==
    IF calls[Len(calls)].svc = "news" THEN NewsListAnswers
                                      ELSE CommentsPostAnswers(buf)

\* forwardReq: the answer of the service is passed on
ForwardReturn ==
    /\ hpc = "forward"
    /\ \E ans \in ForwardAnswers \cup {TransportErr} :
          IF ans.err
          THEN /\ written' = Append(written, InternalError)
               /\ answers' = [answers EXCEPT ![calls[Len(calls)].svc] =
                                     Returned(ans, FALSE, ans.body)]
          ELSE \E read \in ReadBody(ans.body) :
                  /\ written' = Append(written,
                                 [status |-> ans.status, body |-> read])
                  /\ answers' = [answers EXCEPT ![calls[Len(calls)].svc] =
                                     Returned(ans, TRUE, read)]
    /\ hpc' = "done"
    /\ UNCHANGED <<greq, calls, modAns, buf, wpc, wres, ch, received,
                   news, coms, hctx>>
    /\ UNCHANGED <<treeVars, storeVars, comVars, apiVars, newsVars>>

(***************************************************************************)
(* handleNewsDitailed: two worker goroutines and the collecting loop.      *)
(***************************************************************************)
DetailStart ==
    /\ hpc = "received"
    /\ greq.route = "GET /news/{id}"
    /\ wpc' = [w \in Workers |-> "start"]
    /\ hpc' = "collect"
    /\ hctx' = "live"
    /\ UNCHANGED <<greq, calls, modAns, buf, written, wres, ch, received,
                   news, coms>>
    /\ UNCHANGED <<answers, treeVars, storeVars, comVars, apiVars, newsVars>>

\* nsu and csu of handleNewsDitailed
DetailURL(w) ==
    IF w = "news" THEN serviceURL(greq, "news", <<"news", greq.id>>)
                  ELSE serviceURL(greq, "comments", <<"comments">>)

\* r(c, &u): makeRequest(u, http.MethodGet, nil); the requester does not use
\* c, makeRequest runs the call under a context and deadline of its own
WorkerCall(w) ==
    /\ wpc[w] = "start"
    /\ calls' = Append(calls, Call(w, "GET", <<>>, DetailURL(w)))
    /\ wpc' = [wpc EXCEPT ![w] = "inflight"]
    /\ UNCHANGED <<greq, hpc, modAns, buf, written, wres, ch, received,
                   news, coms, hctx>>
    /\ UNCHANGED <<answers, treeVars, storeVars, comVars, apiVars, newsVars>>

\* makeRequest returns, f(resp.Body) decodes what can still be read
WorkerReturn(w) ==
    /\ wpc[w] = "inflight"
    /\ \E ans \in (IF w = "news" THEN NewsGetAnswers ELSE CommentsGetAnswers)
                    \cup {TransportErr} :
          IF ans.err
          THEN /\ wres' = [wres EXCEPT ![w] = ErrValue]
               /\ answers' = [answers EXCEPT ![w] =
                                     Returned(ans, FALSE, ans.body)]
          ELSE \E read \in ReadBody(ans.body) :
                  /\ wres' = [wres EXCEPT ![w] =
                                IF w = "news" THEN DecodeNews(read)
                                              ELSE DecodeComments(read)]
                  /\ answers' = [answers EXCEPT ![w] =
                                     Returned(ans, TRUE, read)]
    /\ wpc' = [wpc EXCEPT ![w] = "got"]
    /\ UNCHANGED <<greq, hpc, calls, modAns, buf, written, ch, received,
                   news, coms, hctx>>
    /\ UNCHANGED <<treeVars, storeVars, comVars, apiVars, newsVars>>

\* ch <- v or ch <- err; blocks while the channel is full
WorkerSend(w) ==
    /\ wpc[w] = "got"
    /\ Len(ch) < ChanCap
    /\ ch' = Append(ch, wres[w])
    /\ wpc' = [wpc EXCEPT ![w] = "sent"]
    /\ UNCHANGED <<greq, hpc, calls, modAns, buf, written, wres, received,
                   news, coms, hctx>>
    /\ UNCHANGED <<answers, treeVars, storeVars, comVars, apiVars, newsVars>>

\* the 5 s of context.WithTimeout pass; the handler waits on ch, not on c
Deadline ==
    /\ hctx = "live"
    /\ hctx' = "expired"
    /\ UNCHANGED <<greq, hpc, calls, modAns, buf, written, wpc, wres, ch,
                   received, news, coms>>
    /\ UNCHANGED <<answers, treeVars, storeVars, comVars, apiVars, newsVars>>

\* Collect, were the return after the error answer missing
CollectGoesOn ==
    /\ hpc = "collect"
    /\ Len(received) < Cardinality(Workers)
    /\ ch # <<>>
    /\ LET v == Head(ch)
       IN  /\ received' = Append(received, v)
           /\ ch' = Tail(ch)
           /\ IF v.kind = "error"
              THEN /\ written' = Append(written, InternalError)
                   /\ UNCHANGED <<hpc, news, coms, hctx>>
              ELSE /\ news' = IF v.kind = "news" THEN v ELSE news
                   /\ coms' = IF v.kind = "comments" THEN v ELSE coms
                   /\ UNCHANGED <<written, hpc, hctx>>
    /\ UNCHANGED <<greq, calls, modAns, buf, wpc, wres>>
    /\ UNCHANGED <<answers, treeVars, storeVars, comVars, apiVars, newsVars>>

\* v := <-ch and the type switch, one iteration of the collecting loop
Collect ==
    /\ hpc = "collect"
    /\ Len(received) < Cardinality(Workers)
    /\ ch # <<>>
    /\ LET v == Head(ch)
       IN  /\ received' = Append(received, v)
           /\ ch' = Tail(ch)
           /\ IF v.kind = "error"
              THEN /\ written' = Append(written, InternalError)
                   /\ hpc' = "done"
                   /\ hctx' = Cancelled(hctx)
                   /\ UNCHANGED <<news, coms>>
              ELSE /\ news' = IF v.kind = "news" THEN v ELSE news
                   /\ coms' = IF v.kind = "comments" THEN v ELSE coms
                   /\ UNCHANGED <<written, hpc, hctx>>
    /\ UNCHANGED <<greq, calls, modAns, buf, wpc, wres>>
    /\ UNCHANGED <<answers, treeVars, storeVars, comVars, apiVars, newsVars>>

\* news.Comments = domain.ToTree(comments); api.WriteJSON(w, news, 200).
\* ToTree does not return for a list with a reply cycle (the process dies).
Compose ==
    /\ hpc = "collect"
    /\ Len(received) = Cardinality(Workers)
    /\ IF coms.val = "cyclic"
       THEN /\ hpc' = "crashed"
            /\ written' = written
            /\ hctx' = hctx
       ELSE /\ hpc' = "done"
            /\ written' = Append(written, [status |-> 200, body |-> CompositeDoc])
            /\ hctx' = Cancelled(hctx)
    /\ UNCHANGED <<greq, calls, modAns, buf, wpc, wres, ch, received,
                   news, coms>>
    /\ UNCHANGED <<answers, treeVars, storeVars, comVars, apiVars, newsVars>>

NextGateway ==
    \/ Receive
    \/ CheckCall
    \/ CheckReturn
    \/ ForwardCall
    \/ LatestCall
    \/ ForwardReturn
    \/ DetailStart
    \/ Deadline
    \/ \E w \in Workers : WorkerCall(w)
    \/ \E w \in Workers : WorkerReturn(w)
    \/ \E w \in Workers : WorkerSend(w)
    \/ Collect
    \/ Compose

\* ToTree is idle in the gateway specification: an empty list, returned
InitTreeIdle ==
    /\ flat = <<>>
    /\ comments = <<>>
    /\ m = EmptyMap
    /\ tops = 0
    /\ out = <<>>
    /\ i = 1
    /\ pc = "done"
    /\ returned = <<>>


(***************************************************************************)
(*                        Go int on a 64-bit machine                       *)
(*                                                                         *)
(* An int is kept in two's complement as four digits of 16 bits, the       *)
(* lowest first: the sum and the product wrap at 2^64 as the machine's do. *)
(***************************************************************************)
Base == 2^16

Word(a, b, c, e) == <<a, b, c, e>>

\* x + y + carry, digit by digit, with the carry out of the highest digit
AddCarry(x, y, carry) ==
    LET s1 == x[1] + y[1] + carry
        s2 == x[2] + y[2] + s1 \div Base
        s3 == x[3] + y[3] + s2 \div Base
        s4 == x[4] + y[4] + s3 \div Base
    IN  [v |-> Word(s1 % Base, s2 % Base, s3 % Base, s4 % Base),
         carry |-> s4 \div Base]

Plus(x, y) == AddCarry(x, y, 0).v

Not(x) == [j \in 1..4 |-> Base - 1 - x[j]]

Neg(x) == AddCarry(Not(x), Word(0, 0, 0, 0), 1).v

Minus(x, y) == AddCarry(x, Not(y), 1).v

\* x * k for 0 <= k < 2^15, with the carry out of the highest digit
MulCarry(x, k) ==
    LET p1 == x[1] * k
        p2 == x[2] * k + p1 \div Base
        p3 == x[3] * k + p2 \div Base
        p4 == x[4] * k + p3 \div Base
    IN  [v |-> Word(p1 % Base, p2 % Base, p3 % Base, p4 % Base),
         carry |-> p4 \div Base]

Times(x, k) == MulCarry(x, k).v

\* the int of a number of the model, -2^30 < n < 2^30
GoInt(n) ==
    IF n >= 0 THEN Word(n % Base, n \div Base, 0, 0)
    ELSE Neg(Word((0 - n) % Base, (0 - n) \div Base, 0, 0))

IsNegative(x) == x[4] >= Base \div 2

Zero == Word(0, 0, 0, 0)

One == Word(1, 0, 0, 0)

Positive(x) == ~IsNegative(x) /\ x # Zero

\* stands for every int from 2^30 on where a row number is needed
Huge == 2^30

Magnitude(x) ==
    IF x[3] = 0 /\ x[4] = 0 /\ x[2] < 2^14 THEN x[2] * Base + x[1] ELSE Huge

\* the number of the model for an int
Num(x) == IF IsNegative(x) THEN 0 - Magnitude(Neg(x)) ELSE Magnitude(x)

MaxInt == Word(Base - 1, Base - 1, Base - 1, Base \div 2 - 1)

MinInt == Word(0, 0, 0, Base \div 2)

(***************************************************************************)
(*                             The news store                              *)
(*                                                                         *)
(* Table news of schema.sql: id BIGSERIAL, title, description, pub_date    *)
(* CHECK (pub_date > 0), link UNIQUE.  A title is its sequence of words.   *)
(***************************************************************************)
PageSize == 10

\* storage.Sort
Empty == 0
Date == 1
Title == 2
Rank == 3

SortString(srt) == <<"", "pub_date", "title", "rank">>[srt + 1]

Columns == {"id", "title", "description", "pub_date", "link", "title_search"}

Operators == {"=", "<", "<=", ">", ">="}

NoTime == [Value |-> 0, Operator |-> ""]

Filters ==
    [Exclude : {<<>>, <<"db">>},
     SortBy : {Empty, Date, Title, Rank},
     Page : {One},
     Date : {NoTime} \cup [Value : {2}, Operator : Operators],
     EndDate : {NoTime} \cup [Value : {3}, Operator : {"<", "<="}],
     TitleSearch : {<<>>, <<"go">>}]

(***************************************************************************)
(* The statement builder.  stmt.sql is the text as a sequence of clauses;  *)
(* what Sprintf writes into the text (keyword, column, operator, number    *)
(* of the placeholder) is kept in the clause.                              *)
(***************************************************************************)
Clause(t, kw, col, op, ph) == [t |-> t, kw |-> kw, col |-> col, op |-> op, ph |-> ph]

Statement(what) == [sql |-> <<Clause("select", what, "", "", 0)>>, args |-> <<>>]

RECURSIVE Join(_, _)
\* strings.Join
Join(terms, sep) ==
    IF Len(terms) = 0 THEN <<>>
    ELSE IF Len(terms) = 1 THEN <<terms[1]>>
    ELSE <<terms[1], sep>> \o Join(Tail(terms), sep)

searchStr(f) ==
    Join(f.TitleSearch, "&")
        \o (IF Len(f.Exclude) > 0 THEN <<"&!">> ELSE <<>>)
        \o Join(f.Exclude, "&!")

\* pageNum is an int, pageSize the untyped constant storage.PageSize
calcLimitOffset(pageNum, pageSize) ==
    IF ~Positive(pageNum) THEN <<Zero, Zero>>
    ELSE <<GoInt(pageSize), Times(Minus(pageNum, One), pageSize)>>

\* the first search term written into the text as well
addWhereClauseWritesSearch(stmt, f) ==
    LET s1 == IF Len(f.TitleSearch) > 0
              THEN [sql |-> Append(stmt.sql,
                               Clause("fts", "WHERE", "title_search",
                                      f.TitleSearch[1], Len(stmt.args) + 1)),
                    args |-> Append(stmt.args, searchStr(f))]
              ELSE stmt
        s2 == IF f.Date.Value > 0
              THEN [sql |-> Append(s1.sql,
                               Clause("cmp",
                                      IF Len(s1.args) > 0 THEN "AND" ELSE "WHERE",
                                      "pub_date", f.Date.Operator,
                                      Len(s1.args) + 1)),
                    args |-> Append(s1.args, f.Date.Value)]
              ELSE s1
        s3 == IF f.Date.Value > 0 /\ f.EndDate.Value > 0
              THEN [sql |-> IF Len(s2.args) > 0
                            THEN Append(s2.sql,
                                   Clause("cmp", "AND", "pub_date",
                                          f.EndDate.Operator, Len(s2.args) + 1))
                            ELSE s2.sql,
                    args |-> Append(s2.args, f.EndDate.Value)]
              ELSE s2
    IN  s3

addWhereClause(stmt, f) ==
    LET s1 == IF Len(f.TitleSearch) > 0
              THEN [sql |-> Append(stmt.sql,
                               Clause("fts", "WHERE", "title_search", "@@",
                                      Len(stmt.args) + 1)),
                    args |-> Append(stmt.args, searchStr(f))]
              ELSE stmt
        s2 == IF f.Date.Value > 0
              THEN [sql |-> Append(s1.sql,
                               Clause("cmp",
                                      IF Len(s1.args) > 0 THEN "AND" ELSE "WHERE",
                                      "pub_date", f.Date.Operator,
                                      Len(s1.args) + 1)),
                    args |-> Append(s1.args, f.Date.Value)]
              ELSE s1
        s3 == IF f.Date.Value > 0 /\ f.EndDate.Value > 0
              THEN [sql |-> IF Len(s2.args) > 0
                            THEN Append(s2.sql,
                                   Clause("cmp", "AND", "pub_date",
                                          f.EndDate.Operator, Len(s2.args) + 1))
                            ELSE s2.sql,
                    args |-> Append(s2.args, f.EndDate.Value)]
              ELSE s2
    IN  s3

\* the placeholder of ts_rank numbered by the arguments bound so far
addOrderByCountsFromZero(stmt, f) ==
    IF f.SortBy = Empty
    THEN [stmt EXCEPT !.sql = Append(@, Clause("order", "ORDER BY",
                                               SortString(Date), "DESC", 0))]
    ELSE IF f.SortBy = Rank /\ Len(f.TitleSearch) > 0
    THEN [sql |-> Append(stmt.sql, Clause("order", "ORDER BY", "ts_rank",
                                          "DESC", Len(stmt.args))),
          args |-> Append(stmt.args, searchStr(f))]
    ELSE [stmt EXCEPT !.sql = Append(@, Clause("order", "ORDER BY",
                                               SortString(f.SortBy), "DESC", 0))]

addOrderBy(stmt, f) ==
    IF f.SortBy = Empty
    THEN [stmt EXCEPT !.sql = Append(@, Clause("order", "ORDER BY",
                                               SortString(Date), "DESC", 0))]
    ELSE IF f.SortBy = Rank /\ Len(f.TitleSearch) > 0
    THEN [sql |-> Append(stmt.sql, Clause("order", "ORDER BY", "ts_rank",
                                          "DESC", Len(stmt.args) + 1)),
          args |-> Append(stmt.args, searchStr(f))]
    ELSE [stmt EXCEPT !.sql = Append(@, Clause("order", "ORDER BY",
                                               SortString(f.SortBy), "DESC", 0))]

addLimitOffsetClause(stmt, f) ==
    LET lo == calcLimitOffset(f.Page, PageSize)
        s1 == IF Positive(lo[1])
              THEN [sql |-> Append(stmt.sql, Clause("limit", "LIMIT", "", "",
                                                    Len(stmt.args) + 1)),
                    args |-> Append(stmt.args, lo[1])]
              ELSE stmt
        s2 == IF Positive(lo[2])
              THEN [sql |-> Append(s1.sql, Clause("offset", "OFFSET", "", "",
                                                  Len(s1.args) + 1)),
                    args |-> Append(s1.args, lo[2])]
              ELSE s1
    IN  s2

(***************************************************************************)
(* The database executing a statement over the rows of news.               *)
(***************************************************************************)
Words(title) == { title[j] : j \in DOMAIN title }

RECURSIVE TsTerms(_, _, _)
\* to_tsquery: the terms of the query that are negated (neg) or not
TsTerms(qs, j, neg) ==
    IF j > Len(qs) THEN {}
    ELSE IF qs[j] \in {"&", "&!"} THEN TsTerms(qs, j + 1, neg)
    ELSE (IF (j > 1 /\ qs[j - 1] = "&!") = neg THEN {qs[j]} ELSE {})
            \cup TsTerms(qs, j + 1, neg)

\* title_search @@ to_tsquery('russian', query)
TsMatch(title, qs) ==
    /\ TsTerms(qs, 1, FALSE) \subseteq Words(title)
    /\ TsTerms(qs, 1, TRUE) \cap Words(title) = {}

\* ts_rank: grows with the number of words of the title the query asks for
TsRank(title, qs) ==
    Cardinality({ j \in DOMAIN title : title[j] \in TsTerms(qs, 1, FALSE) })

Compare(a, op, b) ==
    CASE op = "=" -> a = b
      [] op = "<" -> a < b
      [] op = "<=" -> a <= b
      [] op = ">" -> a > b
      [] op = ">=" -> a >= b
      [] OTHER -> FALSE

Conditions(stmt) == SelectSeq(stmt.sql, LAMBDA c : c.t \in {"fts", "cmp"})

ClausesOf(stmt, t) == SelectSeq(stmt.sql, LAMBDA c : c.t = t)

\* what makes the server reject the statement
Rejected(stmt) ==
    LET conds == Conditions(stmt)
        phs == { stmt.sql[j].ph : j \in DOMAIN stmt.sql } \ {0}
    IN  \/ phs # 1..Len(stmt.args)
        \/ \E j \in DOMAIN conds :
              conds[j].kw # (IF j = 1 THEN "WHERE" ELSE "AND")
        \/ \E j \in DOMAIN conds :
              conds[j].t = "cmp" /\ conds[j].op \notin Operators
        \/ \E j \in DOMAIN stmt.sql :
              /\ stmt.sql[j].t = "order"
              /\ stmt.sql[j].col \notin Columns \cup {"ts_rank"}

Satisfies(row, stmt) ==
    \A j \in DOMAIN stmt.sql :
        LET c == stmt.sql[j]
        IN  /\ c.t = "fts" => TsMatch(row.title, stmt.args[c.ph])
            /\ c.t = "cmp" => Compare(row.pub_date, c.op, stmt.args[c.ph])

\* the sort key of a row; titles are ordered by length, then first word
TitleKey(title) == Len(title) * 10 + (IF title[1] = "db" THEN 1
                                     ELSE IF title[1] = "go" THEN 2 ELSE 3)

SortKey(row, stmt) ==
    LET ord == ClausesOf(stmt, "order")
    IN  IF Len(ord) = 0 THEN 0
        ELSE CASE ord[1].col = "pub_date" -> row.pub_date
               [] ord[1].col = "title" -> TitleKey(row.title)
               [] ord[1].col = "id" -> row.id
               [] ord[1].col = "link" -> row.link
               [] ord[1].col = "ts_rank" -> TsRank(row.title, stmt.args[ord[1].ph])
               [] OTHER -> 0

RECURSIVE InsertDesc(_, _, _)
\* insert row into a list sorted by descending key, after its equals
InsertDesc(sorted, row, stmt) ==
    IF sorted = <<>> THEN <<row>>
    ELSE IF SortKey(row, stmt) > SortKey(Head(sorted), stmt)
         THEN <<row>> \o sorted
         ELSE <<Head(sorted)>> \o InsertDesc(Tail(sorted), row, stmt)

RECURSIVE OrderDesc(_, _)
OrderDesc(rows, stmt) ==
    IF rows = <<>> THEN <<>>
    ELSE InsertDesc(OrderDesc(SubSeq(rows, 1, Len(rows) - 1), stmt),
                    rows[Len(rows)], stmt)

LimitOf(stmt) ==
    LET l == ClausesOf(stmt, "limit")
    IN  IF Len(l) = 0 THEN -1 ELSE Num(stmt.args[l[1].ph])

OffsetOf(stmt) ==
    LET o == ClausesOf(stmt, "offset")
    IN  IF Len(o) = 0 THEN 0 ELSE Num(stmt.args[o[1].ph])

\* the rows a SELECT returns
Select(rows, stmt) ==
    LET hit == SelectSeq(rows, LAMBDA r : Satisfies(r, stmt))
        ord == OrderDesc(hit, stmt)
        from == OffsetOf(stmt) + 1
        to == IF LimitOf(stmt) < 0 THEN Len(ord)
              ELSE IF from + LimitOf(stmt) - 1 > Len(ord) THEN Len(ord)
              ELSE from + LimitOf(stmt) - 1
    IN  SubSeq(ord, from, to)

\* row -> storage.Item, as rows.Scan fills it
ScanItem(r) ==
    [Id |-> r.id, Title |-> r.title, Description |-> r.description,
     PubDate |-> r.pub_date, Link |-> r.link]

ZeroItem == [Id |-> 0, Title |-> <<>>, Description |-> "", PubDate |-> 0, Link |-> 0]

(***************************************************************************)
(* package postgres: the reads.                                            *)
(***************************************************************************)
CountStatement(f) == addWhereClause(Statement("COUNT(id)"), f)

CountItems(rows, f) ==
    LET stmt == CountStatement(f)
    IN  IF Rejected(stmt) THEN [err |-> TRUE, c |-> 0]
        ELSE [err |-> FALSE, c |-> Len(Select(rows, stmt))]

ItemsStatement(f) ==
    addLimitOffsetClause(addOrderBy(addWhereClause(Statement("rows"), f), f), f)

Items(rows, f) ==
    LET stmt == ItemsStatement(f)
    IN  IF Rejected(stmt) THEN [err |-> TRUE, items |-> <<>>]
        ELSE LET got == Select(rows, stmt)
             IN  [err |-> FALSE, items |-> [j \in 1..Len(got) |-> ScanItem(got[j])]]

\* SELECT ... FROM news WHERE link = $1, QueryRow(...).Scan
ItemByLink(rows, link) ==
    LET got == SelectSeq(rows, LAMBDA r : r.link = link)
    IN  IF Len(got) = 0 THEN [err |-> TRUE, item |-> ZeroItem]
        ELSE [err |-> FALSE, item |-> ScanItem(got[1])]

(***************************************************************************)
(* package postgres: AddItems (addItemsByBatch).                           *)
(***************************************************************************)
\* InsertOne, were the conflict resolved by overwriting the stored row
InsertOneUpdates(rows, item, id) ==
    IF \E j \in DOMAIN rows : rows[j].link = item.Link
    THEN [j \in DOMAIN rows |->
            IF rows[j].link = item.Link
            THEN [rows[j] EXCEPT !.title = item.Title,
                                 !.description = item.Description,
                                 !.pub_date = item.PubDate]
            ELSE rows[j]]
    ELSE Append(rows, [id |-> id, title |-> item.Title,
                       description |-> item.Description,
                       pub_date |-> item.PubDate, link |-> item.Link])

\* INSERT INTO news(...) VALUES (...) ON CONFLICT (link) DO NOTHING
InsertOne(rows, item, id) ==
    IF \E j \in DOMAIN rows : rows[j].link = item.Link
    THEN rows
    ELSE Append(rows, [id |-> id, title |-> item.Title,
                       description |-> item.Description,
                       pub_date |-> item.PubDate, link |-> item.Link])

\* CHECK (pub_date > 0), tested before the conflict on link is looked for
ViolatesCheck(item) == ~(item.PubDate > 0)

RECURSIVE RunBatch(_, _, _, _)
\* the queued statements run in order inside the transaction; the first
\* failure aborts it.  Every statement takes a value of the id sequence.
RunBatch(rows, items, j, id) ==
    IF j > Len(items) THEN [err |-> FALSE, rows |-> rows, id |-> id]
    ELSE IF ViolatesCheck(items[j]) THEN [err |-> TRUE, rows |-> rows, id |-> id + 1]
    ELSE RunBatch(InsertOne(rows, items[j], id), items, j + 1, id + 1)

NewItem(title, pub, link) ==
    [Id |-> 0, Title |-> title, Description |-> "d", PubDate |-> pub, Link |-> link]

\* the items the poller may hand over: link 1 may be stored already
ItemPool ==
    {NewItem(<<"go">>, 2, 1), NewItem(<<"db">>, 2, 1),
     NewItem(<<"go", "go">>, 2, 100), NewItem(<<"db">>, 0, 100)}

Batches == UNION { [1..n -> ItemPool] : n \in 1..MaxBatch }

SeedTitle(k) ==
    IF k % 2 = 0 THEN <<"go">>
    ELSE IF k % 3 = 0 THEN <<"go", "db">> ELSE <<"news">>

\* a store filled by earlier batches of n items with distinct links
Seed(n) ==
    [k \in 1..n |-> [id |-> k, title |-> SeedTitle(k), description |-> "d",
                     pub_date |-> 1 + (k % 3), link |-> k]]

SeedSizes == {0, 1, 2, MaxSeed}

NoRead == [op |-> "none", filter |-> 0, link |-> 0, count |-> 0, pages |-> 0,
           res |-> 0]

InitStore ==
    /\ \E n \in SeedSizes : store = Seed(n) /\ nextId = n + 1
    /\ adds = 0
    /\ lastBatch = <<>>
    /\ lastErr = FALSE
    /\ q = NoRead

InitStoreEmpty ==
    /\ store = <<>>
    /\ nextId = 1
    /\ adds = 0
    /\ lastBatch = <<>>
    /\ lastErr = FALSE
    /\ q = NoRead

\* BeginFunc: commit when the batch succeeded, roll back otherwise.  The
\* commit itself may fail (connection lost, context done): no row is kept.
AddItems ==
    /\ adds < MaxAdds
    /\ \E items \in Batches, commitFails \in BOOLEAN :
          LET run == RunBatch(store, items, 1, nextId)
          IN  /\ lastBatch' = items
              /\ lastErr' = (run.err \/ commitFails)
              /\ store' = IF run.err \/ commitFails THEN store ELSE run.rows
              /\ nextId' = run.id
    /\ adds' = adds + 1
    /\ q' = NoRead
    /\ UNCHANGED <<treeVars, gwVars, comVars, apiVars, newsVars>>

\* where a call of exec may fail
ExecFailures == {"none", "begin", "exec", "commit"}

\* AddItem with exec: p.db.Begin opens a transaction, p.db.Exec runs the
\* INSERT on the pool, outside of it, where it is committed at once;
\* tx.Commit and the deferred tx.Rollback act on an empty transaction.
AddItem ==
    /\ adds < MaxAdds
    /\ \E item \in ItemPool, fails \in ExecFailures :
          /\ lastBatch' = <<item>>
          /\ IF fails = "begin"
                THEN lastErr' = TRUE /\ UNCHANGED <<store, nextId>>
                ELSE IF fails = "exec" \/ ViolatesCheck(item)
                THEN lastErr' = TRUE /\ store' = store /\ nextId' = nextId + 1
                ELSE /\ store' = InsertOne(store, item, nextId)
                     /\ nextId' = nextId + 1
                     /\ lastErr' = (fails = "commit")
    /\ adds' = adds + 1
    /\ q' = NoRead
    /\ UNCHANGED <<treeVars, gwVars, comVars, apiVars, newsVars>>

\* a caller reads the total and every page of one filter from the store
\* (one filter in a behaviour)
Paginate ==
    /\ q = NoRead
    /\ \E f \in Filters :
          q' = [op |-> "paginate", filter |-> f, link |-> 0,
                count |-> CountItems(store, f),
                pages |-> [p \in 1..MaxPage |->
                             Items(store, [f EXCEPT !.Page = GoInt(p)])],
                res |-> 0]
    /\ UNCHANGED <<store, nextId, adds, lastBatch, lastErr>>
    /\ UNCHANGED <<treeVars, gwVars, comVars, apiVars, newsVars>>

Lookup ==
    /\ \E link \in { it.Link : it \in ItemPool } :
          q' = [op |-> "bylink", filter |-> 0, link |-> link, count |-> 0,
                pages |-> 0, res |-> ItemByLink(store, link)]
    /\ UNCHANGED <<store, nextId, adds, lastBatch, lastErr>>
    /\ UNCHANGED <<treeVars, gwVars, comVars, apiVars, newsVars>>

NextStore ==
    \/ AddItems
    \/ AddItem
    \/ Lookup

\* the reads of one filter over a store of any size up to MaxSeed
InitQuery ==
    /\ \E n \in 0..MaxSeed : store = Seed(n) /\ nextId = n + 1
    /\ adds = 0
    /\ lastBatch = <<>>
    /\ lastErr = FALSE
    /\ q = NoRead

NextQuery == Paginate

(***************************************************************************)
(*                          The comments service                           *)
(*                                                                         *)
(* Tables authors(id INTEGER PRIMARY KEY, name NOT NULL) and comments(id   *)
(* INTEGER PRIMARY KEY, author_id NOT NULL, news_id NOT NULL, reply_id,    *)
(* text NOT NULL, timestamp CHECK(timestamp > 0)).  The handlers of the    *)
(* REST API and, as in TestSQLite, direct calls of the repository.         *)
(***************************************************************************)
NoExchange == [op |-> "none"]

\* strconv.ParseInt(s, 10, 64) on a string of characters
Digits == <<"0", "1", "2", "3", "4", "5", "6", "7", "8", "9">>

DigitVal(ch1) == CHOOSE dv \in 0..9 : Digits[dv + 1] = ch1

IsDigit(ch1) == \E dv \in 0..9 : Digits[dv + 1] = ch1

RECURSIVE Decimal(_, _)
Decimal(str, acc) ==
    IF str = <<>> THEN acc
    ELSE Decimal(Tail(str), acc * 10 + DigitVal(Head(str)))

ParseInt(str) ==
    LET neg == str # <<>> /\ Head(str) = "-"
        ds == IF str # <<>> /\ Head(str) \in {"-", "+"} THEN Tail(str) ELSE str
    IN  IF ds = <<>> \/ \E j \in DOMAIN ds : ~IsDigit(ds[j])
        THEN [ok |-> FALSE, n |-> 0]
        ELSE [ok |-> TRUE, n |-> IF neg THEN 0 - Decimal(ds, 0) ELSE Decimal(ds, 0)]

\* domain.Comment of the comments service, as decoded from a request
CommentInputs ==
    [ID : {0}, NewsID : {0, 1}, ReplyID : {0, 1, 3}, PostedAt : {7},
     Text : {"t"}, AuthorID : {0, 1}, AuthorName : {"alice", "bob"}]
    \cup
    [ID : {0}, NewsID : {1}, ReplyID : {0}, PostedAt : {0},
     Text : {"t"}, AuthorID : {0}, AuthorName : {"bob"}]

\* the bodies of POST /comments: a Comment document or no JSON at all
NotJSON == [ID |-> 0, NewsID |-> 0, ReplyID |-> 0, PostedAt |-> 0,
            Text |-> "not json", AuthorID |-> 0, AuthorName |-> ""]

\* the rowid of the next row of a table with INTEGER PRIMARY KEY
NextRowid(ids) ==
    IF ids = {} THEN 1 ELSE (CHOOSE x \in ids : \A y \in ids : y <= x) + 1

AuthorIds(au) == { a.id : a \in au }

AuthorRow(id, name) == [id |-> id, name |-> name]

\* createAuthor, were the row of an existing author replaced
createAuthorReplaces(au, c) ==
    IF c.AuthorID = 0
    THEN LET new == NextRowid(AuthorIds(au))
         IN  [authors |-> au \cup {AuthorRow(new, c.AuthorName)},
              c |-> [c EXCEPT !.AuthorID = new]]
    ELSE [authors |-> { a \in au : a.id # c.AuthorID }
                        \cup {AuthorRow(c.AuthorID, c.AuthorName)},
          c |-> c]

\* createAuthor: a new author, or INSERT ... ON CONFLICT(id) DO NOTHING
createAuthor(au, c) ==
    IF c.AuthorID = 0
    THEN LET new == NextRowid(AuthorIds(au))
         IN  [authors |-> au \cup {AuthorRow(new, c.AuthorName)},
              c |-> [c EXCEPT !.AuthorID = new]]
    ELSE [authors |-> IF c.AuthorID \in AuthorIds(au)
                      THEN au
                      ELSE au \cup {AuthorRow(c.AuthorID, c.AuthorName)},
          c |-> c]

\* (SELECT news_id FROM comments WHERE id = $2): no value when no such row
SelectNewsId(tbl, id) ==
    { tbl[j].news_id : j \in { x \in DOMAIN tbl : tbl[x].id = id } }

\* the news_id that createComment inserts; the empty set is NULL
InsertedNewsId(tbl, c) ==
    IF c.NewsID = 0 /\ c.ReplyID # 0 THEN SelectNewsId(tbl, c.ReplyID)
                                     ELSE {c.NewsID}

CommentRow(id, c, newsId) ==
    [id |-> id, author_id |-> c.AuthorID, news_id |-> newsId,
     reply_id |-> c.ReplyID, text |-> c.Text, timestamp |-> c.PostedAt]

\* createComment: NOT NULL of news_id and CHECK(timestamp > 0) can fail
createComment(tbl, c) ==
    LET nid == InsertedNewsId(tbl, c)
        id == NextRowid({ tbl[j].id : j \in DOMAIN tbl })
    IN  IF nid = {} \/ ~(c.PostedAt > 0)
        THEN [err |-> TRUE, id |-> 0, comments |-> tbl]
        ELSE [err |-> FALSE, id |-> id,
              comments |-> Append(tbl, CommentRow(id, c, CHOOSE x \in nid : TRUE))]

\* SQLite.Create: both inserts in one transaction, rolled back on an error;
\* dbFails is a failure of BeginTx, of a statement or of Commit
Create(au, tbl, c, dbFails) ==
    LET a == createAuthor(au, c)
        r == createComment(tbl, a.c)
    IN  IF dbFails \/ r.err
        THEN [err |-> TRUE, id |-> 0, authors |-> au, comments |-> tbl, c |-> a.c]
        ELSE [err |-> FALSE, id |-> r.id, authors |-> a.authors,
              comments |-> r.comments, c |-> a.c]

\* the name of an author, by the JOIN of Read
NameOf(au, id) == (CHOOSE a \in au : a.id = id).name

ScanComment(au, row) ==
    [ID |-> row.id, NewsID |-> row.news_id, ReplyID |-> row.reply_id,
     PostedAt |-> row.timestamp, Text |-> row.text,
     AuthorID |-> row.author_id, AuthorName |-> NameOf(au, row.author_id)]

\* SQLite.Read: the comments of a news item with their authors
Read(au, tbl, newsID) ==
    LET rows == SelectSeq(tbl, LAMBDA row :
                    row.news_id = newsID /\ row.author_id \in AuthorIds(au))
        found == [j \in 1..Len(rows) |-> ScanComment(au, rows[j])]
    IN  [err |-> found = <<>>, coms |-> found]

InitCommentsEmpty ==
    /\ authors = {}
    /\ commentsTbl = <<>>
    /\ cex = NoExchange

\* the tables of TestSQLite after its first Create: alice and her comment
InitComments ==
    /\ authors \in {{}, {AuthorRow(1, "alice")}}
    /\ commentsTbl \in
          {<<>>} \cup
          (IF authors = {} THEN {}
           ELSE {<<[id |-> 1, author_id |-> 1, news_id |-> 1, reply_id |-> 0,
                    text |-> "t", timestamp |-> 7]>>})
    /\ cex = NoExchange

\* api.handleCommentCreate of the comments service
PostComment ==
    /\ Len(commentsTbl) < MaxComments
    /\ \E c \in CommentInputs \cup {NotJSON} : \E dbFails \in BOOLEAN :
          IF c = NotJSON \/ c.NewsID = 0
          THEN /\ ~dbFails
               /\ cex' = [op |-> "post", in |-> c, status |-> 400, id |-> 0,
                          c |-> c]
               /\ UNCHANGED <<authors, commentsTbl>>
          ELSE LET r == Create(authors, commentsTbl, c, dbFails)
               IN  /\ authors' = r.authors
                   /\ commentsTbl' = r.comments
                   /\ cex' = [op |-> "post", in |-> c,
                              status |-> IF r.err THEN 500 ELSE 201,
                              id |-> r.id, c |-> r.c]
    /\ UNCHANGED <<treeVars, gwVars, storeVars, apiVars, newsVars>>

\* a direct call of the repository, as TestSQLite makes it
RepoCreate ==
    /\ Len(commentsTbl) < MaxComments
    /\ \E c \in CommentInputs : \E dbFails \in BOOLEAN :
          LET r == Create(authors, commentsTbl, c, dbFails)
          IN  /\ authors' = r.authors
              /\ commentsTbl' = r.comments
              /\ cex' = [op |-> "create", in |-> c,
                         status |-> IF r.err THEN 500 ELSE 201,
                         id |-> r.id, c |-> r.c]
    /\ UNCHANGED <<treeVars, gwVars, storeVars, apiVars, newsVars>>

\* the values of news-id a client may send to GET /comments
NewsIdParams == {<<>>, <<"x">>, <<"1">>}

\* api.handleCommentRead
GetComments ==
    /\ \E str \in NewsIdParams : \E dbFails \in BOOLEAN :
          LET id == ParseInt(str)
              r == Read(authors, commentsTbl, id.n)
          IN  IF str = <<>> \/ ~id.ok
              THEN /\ ~dbFails
                   /\ cex' = [op |-> "get", param |-> str, status |-> 400,
                              coms |-> <<>>]
              ELSE cex' = [op |-> "get", param |-> str,
                           status |-> IF dbFails THEN 500 ELSE 200,
                           coms |-> IF dbFails THEN <<>> ELSE r.coms]
    /\ UNCHANGED <<authors, commentsTbl>>
    /\ UNCHANGED <<treeVars, gwVars, storeVars, apiVars, newsVars>>

NextComments == PostComment \/ RepoCreate \/ GetComments

(***************************************************************************)
(*                      The news service, REST API                         *)
(*                                                                         *)
(* GET /news/{id} (itemHandler) and GET /news (itemsHandler with parseQP)  *)
(* over the table news.  The values of a query parameter are strings of    *)
(* characters, except the words of sortBy, s and exc.                      *)
(***************************************************************************)
InitNewsAPI == nex = NoExchange

\* Postgres.Item: QueryRow(...).Scan(...).  Scan fills the item only when a
\* row came back; without a row (ErrNoRows) and when the query failed
\* (connection lost, context deadline) the item stays the zero value.
Item(rows, id, dbFails) ==
    LET got == SelectSeq(rows, LAMBDA r : r.id = id)
    IN  IF dbFails THEN [err |-> "failed", item |-> ZeroItem]
        ELSE IF Len(got) = 0 THEN [err |-> "no rows", item |-> ZeroItem]
        ELSE [err |-> "", item |-> ScanItem(got[1])]

\* the {id} segments a client may ask for
ItemIds == {<<"1">>, <<"2">>, <<"9">>, <<"x">>}

\* the answer of itemHandler to a lookup result
ItemAnswer(r) ==
    IF r.err # ""
    THEN IF r.item = ZeroItem THEN [status |-> 404, item |-> ZeroItem]
                              ELSE [status |-> 500, item |-> ZeroItem]
    ELSE [status |-> 200, item |-> r.item]

\* api.itemHandler; one request is followed, the handlers keep no state
itemHandler ==
    /\ nex = NoExchange
    /\ \E str \in ItemIds : \E dbFails \in BOOLEAN :
          LET id == ParseInt(str)
              r == Item(store, id.n, dbFails)
          IN  IF ~id.ok
              THEN /\ ~dbFails
                   /\ nex' = [op |-> "item", id |-> str, called |-> FALSE,
                              err |-> "", status |-> 404, item |-> ZeroItem]
              ELSE nex' = [op |-> "item", id |-> str, called |-> TRUE,
                           err |-> r.err, status |-> ItemAnswer(r).status,
                           item |-> ItemAnswer(r).item]
    /\ UNCHANGED <<treeVars, gwVars, storeVars, comVars, newsVars>>

(***************************************************************************)
(* parseQP and its parsers.                                                *)
(***************************************************************************)
QPKeys == {"page", "sortBy", "date", "dateEnd", "s", "exc"}

HasPrefix(str, pre) ==
    Len(str) >= Len(pre) /\ SubSeq(str, 1, Len(pre)) = pre

\* strings.SplitN(str, ":", 2) of a string that holds a colon
SplitN(str) ==
    LET at == CHOOSE j \in DOMAIN str :
                  str[j] = ":" /\ \A x \in 1..(j - 1) : str[x] # ":"
    IN  <<SubSeq(str, 1, at - 1), SubSeq(str, at + 1, Len(str))>>

IsLeap(y) == y % 4 = 0 /\ (y % 100 # 0 \/ y % 400 = 0)

DaysIn(y, mo) ==
    IF mo = 2 THEN (IF IsLeap(y) THEN 29 ELSE 28)
    ELSE IF mo \in {4, 6, 9, 11} THEN 30 ELSE 31

\* days from 1970-01-01 to the date
UnixDays(y, mo, d) ==
    LET yy == IF mo <= 2 THEN y - 1 ELSE y
        era == yy \div 400
        yoe == yy - era * 400
        mp == IF mo > 2 THEN mo - 3 ELSE mo + 9
        doy == (153 * mp + 2) \div 5 + d - 1
        doe == yoe * 365 + yoe \div 4 - yoe \div 100 + doy
    IN  era * 146097 + doe - 719468

\* time.Parse(layoutDate, str) with t.Unix(): four digits, two, two
ParseDate(str) ==
    LET wellFormed ==
            /\ Len(str) = 10
            /\ str[5] = "-"
            /\ str[8] = "-"
            /\ \A j \in {1, 2, 3, 4, 6, 7, 9, 10} : IsDigit(str[j])
        y == Decimal(SubSeq(str, 1, 4), 0)
        mo == Decimal(SubSeq(str, 6, 7), 0)
        d == Decimal(SubSeq(str, 9, 10), 0)
    IN  IF wellFormed /\ mo \in 1..12 /\ d \in 1..DaysIn(y, mo)
        THEN [err |-> FALSE, unix |-> UnixDays(y, mo, d) * 86400]
        ELSE [err |-> TRUE, unix |-> 0]

\* operator(o)
operator(o) ==
    CASE o = <<"g", "t", "e">> -> ">="
      [] o = <<"l", "t", "e">> -> "<="
      [] o = <<"l", "t">> -> "<"
      [] o = <<"g", "t">> -> ">"
      [] OTHER -> "="

TimeFilter(v, op) == [Value |-> v, Operator |-> op]

\* timeQParser(qp, layoutDate)
timeQParser(qp) ==
    IF HasPrefix(qp, <<"g", "t", "e", ":">>) \/ HasPrefix(qp, <<"l", "t", "e", ":">>)
    THEN LET split == SplitN(qp)
             t == ParseDate(split[2])
         IN  IF t.err THEN [err |-> TRUE, tf |-> NoTime]
             ELSE [err |-> FALSE, tf |-> TimeFilter(t.unix, operator(split[1]))]
    ELSE LET t == ParseDate(qp)
         IN  IF t.err THEN [err |-> TRUE, tf |-> NoTime]
             ELSE [err |-> FALSE, tf |-> TimeFilter(t.unix, "=")]

\* sortQParser(s)
sortQParser(str) ==
    CASE str = "" -> [err |-> FALSE, srt |-> Empty]
      [] str = "date" -> [err |-> FALSE, srt |-> Date]
      [] str = "title" -> [err |-> FALSE, srt |-> Title]
      [] str = "match" -> [err |-> FALSE, srt |-> Rank]
      [] OTHER -> [err |-> TRUE, srt |-> 0]

\* acc * 10 + dg with the carries of both steps: over tells that 2^64 was
\* passed
AddDigit(by10, dg) ==
    LET sum == AddCarry(by10.v, Word(dg, 0, 0, 0), 0)
    IN  [v |-> sum.v, over |-> by10.carry > 0 \/ sum.carry > 0]

RECURSIVE DecimalInt(_, _)
\* the digits of str added to mag.v; passing 2^64 ends the loop, as
\* strconv.ParseUint returns at once with a range error
DecimalInt(str, mag) ==
    IF mag.over \/ str = <<>> THEN mag
    ELSE DecimalInt(Tail(str),
                    AddDigit(MulCarry(mag.v, 10), DigitVal(Head(str))))

\* strconv.ParseInt: the magnitude read by ParseUint against the range of int
InRange(neg, mag) ==
    IF neg
    THEN (IF mag.over \/ (IsNegative(mag.v) /\ mag.v # MinInt)
          THEN [ok |-> FALSE, n |-> MinInt]
          ELSE [ok |-> TRUE, n |-> Neg(mag.v)])
    ELSE (IF mag.over \/ IsNegative(mag.v)
          THEN [ok |-> FALSE, n |-> MaxInt]
          ELSE [ok |-> TRUE, n |-> mag.v])

\* strconv.Atoi(s): a syntax error gives 0, a value out of the range of int
\* gives the nearest int and a range error
Atoi(str) ==
    LET neg == str # <<>> /\ Head(str) = "-"
        ds == IF str # <<>> /\ Head(str) \in {"-", "+"} THEN Tail(str) ELSE str
    IN  IF ds = <<>> \/ \E j \in DOMAIN ds : ~IsDigit(ds[j])
        THEN [ok |-> FALSE, n |-> Zero]
        ELSE InRange(neg, DecimalInt(ds, [v |-> Zero, over |-> FALSE]))

\* var f filter
ZeroFilter ==
    [Exclude |-> <<>>, SortBy |-> Empty, Page |-> Zero, Date |-> NoTime,
     EndDate |-> NoTime, TitleSearch |-> <<>>]

Failed(f) == [err |-> TRUE, f |-> f]

\* parseQP after dateEnd was parsed, without the check that date is given
EndDateChecksNoDate(f) ==
    IF f.EndDate.Operator \in {">", ">=", "="} THEN Failed(f)
    ELSE [err |-> FALSE, f |-> f]

\* parseQP after dateEnd was parsed: the operator, then the need of date
EndDateChecks(f) ==
    IF f.EndDate.Operator \in {">", ">=", "="} THEN Failed(f)
    ELSE IF f.Date.Value = 0 THEN Failed(f)
    ELSE [err |-> FALSE, f |-> f]

\* parseQP(u): params is u.Query()
parseQP(params) ==
    LET pg == IF params["page"] # <<>> THEN Atoi(params["page"][1])
              ELSE [ok |-> TRUE, n |-> One]
        f1 == [ZeroFilter EXCEPT !.Page = pg.n]
        so == IF params["sortBy"] # <<>> THEN sortQParser(params["sortBy"][1])
              ELSE [err |-> FALSE, srt |-> Empty]
        f2 == [f1 EXCEPT !.SortBy = so.srt]
        dt == IF params["date"] # <<>> THEN timeQParser(params["date"][1])
              ELSE [err |-> FALSE, tf |-> NoTime]
        f3 == [f2 EXCEPT !.Date = dt.tf]
        de == IF params["dateEnd"] # <<>> THEN timeQParser(params["dateEnd"][1])
              ELSE [err |-> FALSE, tf |-> NoTime]
        f4 == [f3 EXCEPT !.EndDate = de.tf]
        ck == IF params["dateEnd"] # <<>> THEN EndDateChecks(f4)
              ELSE [err |-> FALSE, f |-> f4]
        f5 == [f4 EXCEPT !.TitleSearch = params["s"], !.Exclude = params["exc"]]
    IN  IF ~pg.ok THEN Failed(f1)
        ELSE IF so.err THEN Failed(f2)
        ELSE IF dt.err THEN Failed(f3)
        ELSE IF de.err THEN Failed(f4)
        ELSE IF ck.err THEN Failed(f4)
        ELSE [err |-> FALSE, f |-> f5]

\* the dates and prefixes a client may send
D2012 == <<"2", "0", "1", "2", "-", "1", "2", "-", "3", "1">>
D2013 == <<"2", "0", "1", "3", "-", "0", "3", "-", "0", "1">>
D1970 == <<"1", "9", "7", "0", "-", "0", "1", "-", "0", "1">>
DNoDay == <<"2", "0", "1", "3", "-", "0", "2", "-", "3", "0">>

PrefixText(pre) ==
    CASE pre = "gte" -> <<"g", "t", "e", ":">>
      [] pre = "lte" -> <<"l", "t", "e", ":">>
      [] pre = "gt" -> <<"g", "t", ":">>
      [] pre = "lt" -> <<"l", "t", ":">>
      [] OTHER -> <<>>

DatePrefixes == {"", "gte", "lte", "gt", "lt"}

DateValues(dates) ==
    {<<>>} \cup { <<PrefixText(pre) \o dt>> : pre \in DatePrefixes, dt \in dates }

\* page numbers far beyond the last page: 922337203685477582, the first
\* whose offset passes 2^63; 1844674407370955163, whose offset passes 2^64
\* by 4; 9223372036854775808, which is no int
PageNoOffset ==
    <<"9", "2", "2", "3", "3", "7", "2", "0", "3", "6", "8", "5", "4", "7",
      "7", "5", "8", "2">>

PageOffset4 ==
    <<"1", "8", "4", "4", "6", "7", "4", "4", "0", "7", "3", "7", "0", "9",
      "5", "5", "1", "6", "3">>

PageOutOfRange ==
    <<"9", "2", "2", "3", "3", "7", "2", "0", "3", "6", "8", "5", "4", "7",
      "7", "5", "8", "0", "8">>

Requests ==
    [page : {<<>>, <<<<"2">>>>, <<<<"x">>>>, <<PageNoOffset>>, <<PageOffset4>>,
             <<PageOutOfRange>>},
     sortBy : {<<>>, <<"date">>, <<"title">>, <<"match">>, <<"rating">>},
     date : DateValues({D2012, D1970, DNoDay}),
     dateEnd : DateValues({D2013, DNoDay}),
     s : {<<>>, <<"go">>},
     exc : {<<>>, <<"db">>}]

\* TotalPages of itemsHandler
TotalPages(total) ==
    LET t == total \div PageSize
    IN  IF total % PageSize # 0 THEN t + 1 ELSE t

NoPage == [TotalPages |-> 0, PageSize |-> 0, CurrentPage |-> Zero,
           PageData |-> <<>>]

\* itemsHandler after parseQP returned the filter f
ItemsAnswer(rows, f) ==
    LET total == CountItems(rows, f)
        items == Items(rows, f)
    IN  IF total.err \/ items.err THEN [status |-> 500, page |-> NoPage]
        ELSE [status |-> IF Len(items.items) = 0 THEN 204 ELSE 200,
              page |-> [TotalPages |-> TotalPages(total.c),
                        PageSize |-> PageSize, CurrentPage |-> f.Page,
                        PageData |-> items.items]]

\* api.itemsHandler
itemsHandler ==
    /\ nex = NoExchange
    /\ \E params \in Requests :
          LET p == parseQP(params)
          IN  nex' = [op |-> "items", params |-> params, perr |-> p.err,
                      f |-> p.f,
                      status |-> IF p.err THEN 400
                                 ELSE ItemsAnswer(store, p.f).status,
                      page |-> IF p.err THEN NoPage
                               ELSE ItemsAnswer(store, p.f).page]
    /\ UNCHANGED <<treeVars, gwVars, storeVars, comVars, newsVars>>

NextNews == itemHandler \/ itemsHandler

(***************************************************************************)
(* itemsHandler next to the stream writer.  CountItems and Items are two   *)
(* statements sent to the pool one after the other, with no transaction    *)
(* around them: a batch of AddItems may commit in between.                 *)
(***************************************************************************)
\* the requests of the readers: the first page or the second
PageRequests ==
    [page : {<<>>, <<<<"2">>>>}, sortBy : {<<>>}, date : {<<>>},
     dateEnd : {<<>>}, s : {<<>>, <<"go">>}, exc : {<<>>}]

\* itemsHandler up to the return of api.db.CountItems
itemsHandlerCount ==
    /\ nex = NoExchange
    /\ \E params \in PageRequests :
          LET p == parseQP(params)
              total == CountItems(store, p.f)
          IN  nex' = IF p.err
                     THEN [op |-> "items", params |-> params, perr |-> TRUE,
                           f |-> p.f, status |-> 400, page |-> NoPage]
                     ELSE IF total.err
                     THEN [op |-> "items", params |-> params, perr |-> FALSE,
                           f |-> p.f, status |-> 500, page |-> NoPage]
                     ELSE [op |-> "counted", params |-> params, f |-> p.f,
                           total |-> total.c]
    /\ UNCHANGED <<treeVars, gwVars, storeVars, comVars, newsVars>>

\* itemsHandler from api.db.Items to the answer
itemsHandlerItems ==
    /\ nex.op = "counted"
    /\ LET items == Items(store, nex.f)
       IN  nex' = [op |-> "items", params |-> nex.params, perr |-> FALSE,
                   f |-> nex.f,
                   status |-> IF items.err THEN 500
                              ELSE IF Len(items.items) = 0 THEN 204 ELSE 200,
                   page |-> IF items.err THEN NoPage
                            ELSE [TotalPages |-> TotalPages(nex.total),
                                  PageSize |-> PageSize,
                                  CurrentPage |-> nex.f.Page,
                                  PageData |-> items.items]]
    /\ UNCHANGED <<treeVars, gwVars, storeVars, comVars, newsVars>>

NextReaders == itemsHandlerCount \/ itemsHandlerItems \/ AddItems

\* the table news with its last page full or one row short of it
InitFullPage ==
    /\ \E n \in {PageSize - 1, PageSize} : store = Seed(n) /\ nextId = n + 1
    /\ adds = 0
    /\ lastBatch = <<>>
    /\ lastErr = FALSE
    /\ q = NoRead

\* the table news with no row or with the rows 1 and 2
InitNews ==
    /\ \E n \in {0, 2} : store = Seed(n) /\ nextId = n + 1
    /\ adds = 0
    /\ lastBatch = <<>>
    /\ lastErr = FALSE
    /\ q = NoRead

(***************************************************************************)
(*                  The news service, func run (package main)              *)
(*                                                                         *)
(* run starts the poller, three goroutines counted by a WaitGroup (the     *)
(* error logger, the stream writer, the HTTP server) and a fourth one that *)
(* waits for a signal, and then blocks in wg.Wait.  The poller and the     *)
(* stream writer are modelled by their contracts: Poll closes both of its  *)
(* channels once ctx is cancelled and no fetch is in flight, and           *)
(* WriteToStorage returns once values is closed or ctx is cancelled.       *)
(***************************************************************************)
InitMain ==
    /\ stop = "none"
    /\ srvpc = "start"
    /\ conns = 0
    /\ shpc = "wait"
    /\ ctx = "live"
    /\ fetching = 0
    /\ ticks = 0
    /\ values = 0
    /\ errs = 0
    /\ closed = FALSE
    /\ swpc = "consume"
    /\ elpc = "range"
    /\ wg = 3
    /\ runpc = "wait"

\* log.Fatal ends the process: no goroutine takes a step afterwards
Running == srvpc # "fatal" /\ shpc # "fatal" /\ runpc = "wait"

MainFrame == UNCHANGED <<treeVars, gwVars, storeVars, comVars, apiVars,
                         feedVars>>

\* signal.Notify(stop, ...): a signal is put into the channel of capacity 1
Signal ==
    /\ Running
    /\ stop = "none"
    /\ stop' = "sent"
    /\ UNCHANGED <<srvpc, conns, shpc, ctx, fetching, ticks, values, errs,
                   closed, swpc, elpc, wg, runpc>>
    /\ MainFrame

\* srv.ListenAndServe: ErrServerClosed at once when Shutdown was called
\* before; otherwise it binds the address, which may fail (log.Fatal)
ListenAndServe ==
    /\ Running
    /\ srvpc = "start"
    /\ \/ shpc \in {"shutdown", "cancel", "done"} /\ srvpc' = "closed"
       \/ shpc \in {"wait", "taken"} /\ srvpc' \in {"serving", "fatal"}
    /\ UNCHANGED <<stop, conns, shpc, ctx, fetching, ticks, values, errs,
                   closed, swpc, elpc, wg, runpc>>
    /\ MainFrame

\* the server accepts a connection and starts to serve a request on it
Accept ==
    /\ Running
    /\ srvpc = "serving"
    /\ conns < MaxConns
    /\ conns' = conns + 1
    /\ UNCHANGED <<stop, srvpc, shpc, ctx, fetching, ticks, values, errs,
                   closed, swpc, elpc, wg, runpc>>
    /\ MainFrame

\* a handler returns and its connection becomes idle (or is closed)
Served ==
    /\ Running
    /\ conns > 0
    /\ conns' = conns - 1
    /\ UNCHANGED <<stop, srvpc, shpc, ctx, fetching, ticks, values, errs,
                   closed, swpc, elpc, wg, runpc>>
    /\ MainFrame

\* ListenAndServe returned http.ErrServerClosed: log.Println, wg.Done
ServerDone ==
    /\ Running
    /\ srvpc = "closed"
    /\ srvpc' = "done"
    /\ wg' = wg - 1
    /\ UNCHANGED <<stop, conns, shpc, ctx, fetching, ticks, values, errs,
                   closed, swpc, elpc, runpc>>
    /\ MainFrame

\* s := <-stop
TakeSignal ==
    /\ Running
    /\ shpc = "wait"
    /\ stop = "sent"
    /\ stop' = "taken"
    /\ shpc' = "taken"
    /\ UNCHANGED <<srvpc, conns, ctx, fetching, ticks, values, errs,
                   closed, swpc, elpc, wg, runpc>>
    /\ MainFrame

\* srv.Shutdown(ctx) begins: the listener is closed, and a running
\* ListenAndServe returns ErrServerClosed
Shutdown ==
    /\ Running
    /\ shpc = "taken"
    /\ shpc' = "shutdown"
    /\ srvpc' = IF srvpc = "serving" THEN "closed" ELSE srvpc
    /\ UNCHANGED <<stop, conns, ctx, fetching, ticks, values, errs,
                   closed, swpc, elpc, wg, runpc>>
    /\ MainFrame

\* srv.Shutdown(ctx) ends: nil once no connection is active, ctx.Err() when
\* ctx is done before that, and then log.Fatal
ShutdownReturn ==
    /\ Running
    /\ shpc = "shutdown"
    /\ IF ctx = "cancelled"
          THEN shpc' = "fatal"
          ELSE conns = 0 /\ shpc' = "cancel"
    /\ UNCHANGED <<stop, srvpc, conns, ctx, fetching, ticks, values, errs,
                   closed, swpc, elpc, wg, runpc>>
    /\ MainFrame

\* the goroutine ends without cancelling the root context
cancelForgotten ==
    /\ Running
    /\ shpc = "cancel"
    /\ shpc' = "done"
    /\ UNCHANGED <<stop, srvpc, conns, ctx, fetching, ticks, values, errs,
                   closed, swpc, elpc, wg, runpc>>
    /\ MainFrame

\* cancel() after Shutdown returned nil
cancel ==
    /\ Running
    /\ shpc = "cancel"
    /\ shpc' = "done"
    /\ ctx' = "cancelled"
    /\ UNCHANGED <<stop, srvpc, conns, fetching, ticks, values, errs,
                   closed, swpc, elpc, wg, runpc>>
    /\ MainFrame

\* Poll: the ticker starts a fetch of one URL while ctx is live
Fetch ==
    /\ Running
    /\ ctx = "live"
    /\ ticks < MaxTicks
    /\ fetching < MaxFetch
    /\ ticks' = ticks + 1
    /\ fetching' = fetching + 1
    /\ UNCHANGED <<stop, srvpc, conns, shpc, ctx, values, errs, closed,
                   swpc, elpc, wg, runpc>>
    /\ MainFrame

\* Poll: a fetch ends.  Its item goes to values or its error to errs, the
\* producer blocking on a full channel; after the cancellation of ctx the
\* fetch is aborted and gives up its item.
Emit ==
    /\ Running
    /\ fetching > 0
    /\ fetching' = fetching - 1
    /\ \/ values < MaxValues /\ values' = values + 1 /\ errs' = errs
       \/ errs < MaxErrs /\ errs' = errs + 1 /\ values' = values
       \/ ctx = "cancelled" /\ UNCHANGED <<values, errs>>
    /\ UNCHANGED <<stop, srvpc, conns, shpc, ctx, ticks, closed, swpc,
                   elpc, wg, runpc>>
    /\ MainFrame

\* Poll: ctx is cancelled and no fetch is in flight: close both channels
Close ==
    /\ Running
    /\ ctx = "cancelled"
    /\ fetching = 0
    /\ ~closed
    /\ closed' = TRUE
    /\ UNCHANGED <<stop, srvpc, conns, shpc, ctx, fetching, ticks, values,
                   errs, swpc, elpc, wg, runpc>>
    /\ MainFrame

\* WriteToStorage: one item is taken from values (and written in a batch)
WriteToStorage ==
    /\ Running
    /\ swpc = "consume"
    /\ values > 0
    /\ values' = values - 1
    /\ UNCHANGED <<stop, srvpc, conns, shpc, ctx, fetching, ticks, errs,
                   closed, swpc, elpc, wg, runpc>>
    /\ MainFrame

\* WriteToStorage returns (values closed and empty, or ctx cancelled and the
\* last flush made); the goroutine prints the error, if any, and wg.Done
WriterDone ==
    /\ Running
    /\ swpc = "consume"
    /\ \/ closed /\ values = 0
       \/ ctx = "cancelled"
    /\ swpc' = "done"
    /\ wg' = wg - 1
    /\ UNCHANGED <<stop, srvpc, conns, shpc, ctx, fetching, ticks, values,
                   errs, closed, elpc, runpc>>
    /\ MainFrame

\* errLogger: for err := range errs; the loop ends when errs is closed and
\* drained, and the goroutine then calls wg.Done
errLogger ==
    /\ Running
    /\ elpc = "range"
    /\ \/ errs > 0 /\ errs' = errs - 1 /\ UNCHANGED <<elpc, wg>>
       \/ errs = 0 /\ closed /\ errs' = errs /\ elpc' = "done"
          /\ wg' = wg - 1
    /\ UNCHANGED <<stop, srvpc, conns, shpc, ctx, fetching, ticks, values,
                   closed, swpc, runpc>>
    /\ MainFrame

\* wg.Wait() returns, run returns nil and the deferred cancel() runs
Wait ==
    /\ Running
    /\ wg = 0
    /\ runpc' = "returned"
    /\ ctx' = "cancelled"
    /\ UNCHANGED <<stop, srvpc, conns, shpc, fetching, ticks, values, errs,
                   closed, swpc, elpc, wg>>
    /\ MainFrame

NextMain ==
    \/ Signal \/ ListenAndServe \/ Accept \/ Served \/ ServerDone
    \/ TakeSignal \/ Shutdown \/ ShutdownReturn \/ cancel
    \/ Fetch \/ Emit \/ Close \/ WriteToStorage \/ WriterDone
    \/ errLogger \/ Wait

(***************************************************************************)
(*              The news service, decoding of a feed item                  *)
(*                                                                         *)
(* A pubDate text is the sequence of its fields, each with the form it is  *)
(* written in (k) and its number (n); blanks between fields are left out,  *)
(* "," and "-" are fields of their own.  A time is kept as the days since  *)
(* 1970-01-01 and the seconds of the day: its Unix seconds are             *)
(* days * 86400 + secs (the zero time.Time does not fit a small integer).  *)
(***************************************************************************)
NoFeed == [op |-> "none"]

InitFeed == feed = NoFeed

\* time.RFC1123Z, time.RFC1123, time.UnixDate, "02 Jan 2006 15:04:05 -0700",
\* "Mon, 2 Jan 2006 15:04:05 -0700", time.ANSIC, time.RFC850, time.RFC822,
\* time.RFC822Z
layouts ==
    << <<"Mon", ",", "02", "Jan", "2006", "15:04:05", "-0700">>,
       <<"Mon", ",", "02", "Jan", "2006", "15:04:05", "MST">>,
       <<"Mon", "Jan", "_2", "15:04:05", "MST", "2006">>,
       <<"02", "Jan", "2006", "15:04:05", "-0700">>,
       <<"Mon", ",", "2", "Jan", "2006", "15:04:05", "-0700">>,
       <<"Mon", "Jan", "_2", "15:04:05", "2006">>,
       <<"Monday", ",", "02", "-", "Jan", "-", "06", "15:04:05", "MST">>,
       <<"02", "Jan", "06", "15:04", "MST">>,
       <<"02", "Jan", "06", "15:04", "-0700">> >>

Field(k, n) == [k |-> k, n |-> n]

\* the written forms an element of a layout takes
Accepts(std) ==
    CASE std = "02" -> {"dd"}
      [] std \in {"2", "_2"} -> {"dd", "d"}
      [] std = "Mon" -> {"wd3"}
      [] std = "Monday" -> {"wdfull"}
      [] std = "Jan" -> {"mon"}
      [] std = "2006" -> {"yyyy"}
      [] std = "06" -> {"yy"}
      [] std = "15:04:05" -> {"hms"}
      [] std = "15:04" -> {"hm"}
      [] std = "-0700" -> {"numzone"}
      [] std = "MST" -> {"abbr"}
      [] OTHER -> {std}

\* the zero time.Time: January 1, year 1, 00:00:00 UTC
ZeroTime == [days |-> UnixDays(1, 1, 1), secs |-> 0]

\* the number of the field of text that the layout reads with one of stds
FieldOf(layout, text, stds, default) ==
    IF \E j \in DOMAIN layout : layout[j] \in stds
    THEN text[CHOOSE j \in DOMAIN layout : layout[j] \in stds].n
    ELSE default

\* time.Parse(layout, text): the fields must be written as the layout says
\* and the day must exist; an abbreviated zone the server does not know
\* counts as UTC; a year of two digits is 19yy from 69 on and 20yy before
timeParse(layout, text) ==
    IF /\ Len(text) = Len(layout)
       /\ \A j \in DOMAIN layout : text[j].k \in Accepts(layout[j])
    THEN LET yr == IF \E j \in DOMAIN layout : layout[j] = "06"
                   THEN (LET yy == FieldOf(layout, text, {"06"}, 0)
                         IN  IF yy >= 69 THEN 1900 + yy ELSE 2000 + yy)
                   ELSE FieldOf(layout, text, {"2006"}, 0)
             mo == FieldOf(layout, text, {"Jan"}, 1)
             d == FieldOf(layout, text, {"02", "2", "_2"}, 1)
             sod == FieldOf(layout, text, {"15:04:05", "15:04"}, 0)
             off == FieldOf(layout, text, {"-0700"}, 0)
             loc == sod - off
         IN  IF d \in 1..DaysIn(yr, mo)
             THEN [err |-> FALSE,
                   t |-> [days |-> UnixDays(yr, mo, d) + loc \div 86400,
                          secs |-> loc % 86400]]
             ELSE [err |-> TRUE, t |-> ZeroTime]
    ELSE [err |-> TRUE, t |-> ZeroTime]

RECURSIVE TryLayouts(_, _)
\* for i := range layouts { pt, err = time.Parse(...); if err == nil break }
TryLayouts(text, j) ==
    LET r == timeParse(layouts[j], text)
    IN  IF ~r.err \/ j = Len(layouts) THEN r ELSE TryLayouts(text, j + 1)

\* the loop gives up after the first layout
unixUnmarshalXMLFirstLayout(text) ==
    LET r == timeParse(layouts[1], text)
    IN  [unix |-> r.t, err |-> r.err]

\* (*unix).UnmarshalXML: *t = unix(pt.Unix()); return err
unixUnmarshalXML(text) ==
    LET r == TryLayouts(text, 1)
    IN  [unix |-> r.t, err |-> r.err]

\* strip.StripTags over the words of a description
StripTags(desc) == SelectSeq(desc, LAMBDA x : x \notin {"<p>", "</p>"})

ZeroUnix == [days |-> 0, secs |-> 0]

\* (*Item).UnmarshalXML with toItem: the element <item> with or without a
\* <pubDate>; an error of the decoding of a field leaves no item
ItemUnmarshalXML(el) ==
    LET pd == IF el.hasPubDate THEN unixUnmarshalXML(el.pubDate)
              ELSE [unix |-> ZeroUnix, err |-> FALSE]
    IN  IF pd.err THEN [err |-> TRUE, unix |-> pd.unix, items |-> <<>>]
        ELSE [err |-> FALSE, unix |-> pd.unix,
              items |-> << [Id |-> 0, Title |-> el.title, PubDate |-> pd.unix,
                            Description |-> StripTags(el.description),
                            Link |-> el.link] >>]

\* the pubDate texts of the feeds: one way of writing for every layout, a
\* day of one digit, and texts no layout reads
Written(shape, d, mo, off) ==
    LET dd == Field(IF d < 10 THEN "d" ELSE "dd", d)
        d2 == Field("dd", d)
        hms == Field("hms", 3600)
        hm == Field("hm", 3600)
    IN  CASE shape = 1 -> <<Field("wd3", 0), Field(",", 0), d2, Field("mon", mo),
                            Field("yyyy", 2012), hms, Field("numzone", off)>>
          [] shape = 2 -> <<Field("wd3", 0), Field(",", 0), d2, Field("mon", mo),
                            Field("yyyy", 2012), hms, Field("abbr", 0)>>
          [] shape = 3 -> <<Field("wd3", 0), Field("mon", mo), dd, hms,
                            Field("abbr", 0), Field("yyyy", 2012)>>
          [] shape = 4 -> <<d2, Field("mon", mo), Field("yyyy", 2012), hms,
                            Field("numzone", off)>>
          [] shape = 5 -> <<Field("wd3", 0), Field(",", 0), dd, Field("mon", mo),
                            Field("yyyy", 2012), hms, Field("numzone", off)>>
          [] shape = 6 -> <<Field("wd3", 0), Field("mon", mo), dd, hms,
                            Field("yyyy", 2012)>>
          [] shape = 7 -> <<Field("wdfull", 0), Field(",", 0), d2, Field("-", 0),
                            Field("mon", mo), Field("-", 0), Field("yy", 12),
                            hms, Field("abbr", 0)>>
          [] shape = 8 -> <<d2, Field("mon", mo), Field("yy", 12), hm,
                            Field("abbr", 0)>>
          [] shape = 9 -> <<d2, Field("mon", mo), Field("yy", 70), hm,
                            Field("numzone", off)>>
          [] shape = 10 -> <<Field("yyyy", 2012), Field("-", 0), Field("mon", mo),
                             Field("-", 0), d2, Field("T", 0), hms>>
          [] OTHER -> <<>>

Shapes == 1..11

Elements ==
    { [hasPubDate |-> TRUE, pubDate |-> Written(sh, d, mo, off),
       title |-> <<"go">>, description |-> <<"<p>", "d", "</p>">>, link |-> 1] :
        sh \in Shapes, d \in {2, 12, 29, 30}, mo \in {1, 2}, off \in {0, 10800, -18000} }
    \cup { [hasPubDate |-> FALSE, pubDate |-> <<>>, title |-> <<"go">>,
            description |-> <<"d">>, link |-> 1] }

\* xml.Decoder decodes one <item> of a feed
Decode ==
    /\ feed = NoFeed
    /\ \E el \in Elements :
          feed' = [op |-> "decoded", el |-> el, res |-> ItemUnmarshalXML(el)]
    /\ UNCHANGED <<treeVars, gwVars, storeVars, comVars, apiVars, mainVars>>

NextFeed == Decode

\* the services that take no step in a specification
InitRest == InitCommentsEmpty /\ InitNewsAPI /\ InitMain /\ InitFeed

\* A call of ToTree on a flat list; gateway and store at rest.
InitToTree == InitTree /\ InitGateway /\ InitStoreEmpty /\ InitRest

SpecTree == InitToTree /\ [][NextTree]_vars

\* The gateway after New, before any request.
InitAPI == InitTreeIdle /\ InitGateway /\ InitStoreEmpty /\ InitRest

SpecGateway == InitAPI /\ [][NextGateway]_vars

\* The comments service with its tables; requests and direct calls.
InitSQLite == InitTreeIdle /\ InitGateway /\ InitStoreEmpty /\ InitComments
              /\ InitNewsAPI /\ InitMain /\ InitFeed

SpecComments == InitSQLite /\ [][NextComments]_vars

\* The news service answering requests over a stored table.
InitNewsService == InitTreeIdle /\ InitGateway /\ InitNews
                   /\ InitCommentsEmpty /\ InitNewsAPI /\ InitMain /\ InitFeed

SpecNews == InitNewsService /\ [][NextNews]_vars

\* The Go scheduler runs every worker goroutine that can take a step, and
\* makeRequest returns within its 5 s deadline.
SpecGatewayFair ==
    /\ SpecGateway
    /\ \A w \in Workers :
          /\ WF_vars(WorkerCall(w))
          /\ WF_vars(WorkerReturn(w))
          /\ WF_vars(WorkerSend(w))

\* func run after wg.Add(3) and the four go statements.
InitRun == InitTreeIdle /\ InitGateway /\ InitStoreEmpty /\ InitRest

SpecMain == InitRun /\ [][NextMain]_vars

\* The Go scheduler runs every goroutine that can take a step, and every
\* handler of the server returns.  Signals, new connections and new fetches
\* may or may not come.
SpecMainFair ==
    /\ SpecMain
    /\ WF_vars(ListenAndServe) /\ WF_vars(Served) /\ WF_vars(ServerDone)
    /\ WF_vars(TakeSignal) /\ WF_vars(Shutdown) /\ WF_vars(ShutdownReturn)
    /\ WF_vars(cancel) /\ WF_vars(Emit) /\ WF_vars(Close)
    /\ WF_vars(WriteToStorage) /\ WF_vars(WriterDone)
    /\ WF_vars(errLogger) /\ WF_vars(Wait)

\* The news service answering GET /news while the stream writer inserts.
InitReaders == InitTreeIdle /\ InitGateway /\ InitFullPage
               /\ InitCommentsEmpty /\ InitNewsAPI /\ InitMain /\ InitFeed

SpecReaders == InitReaders /\ [][NextReaders]_vars

\* The decoder of the poller reading one <item> of a feed.
InitDecoder == InitTreeIdle /\ InitGateway /\ InitStoreEmpty /\ InitRest

SpecFeed == InitDecoder /\ [][NextFeed]_vars

\* The news table holding a few rows, writers and ItemByLink running.
InitPostgres == InitTreeIdle /\ InitGateway /\ InitStore /\ InitRest

SpecStore == InitPostgres /\ [][NextStore]_vars

\* The news table holding 0..MaxSeed rows, read by CountItems and Items.
InitItems == InitTreeIdle /\ InitGateway /\ InitQuery /\ InitRest

SpecQuery == InitItems /\ [][NextQuery]_vars

(***************************************************************************)
(* C7: POST /comments calls the comments service only after the moderation *)
(* service answered 200 for this request; a non-200 moderation answer is   *)
(* passed to the client with exactly its status and body, and the comments *)
(* service is not called.                                                  *)
(***************************************************************************)
CommentsCalled == \E j \in DOMAIN calls : calls[j].svc = "comments"

ModerationRefused == ~modAns.err /\ modAns.status \notin {0, 200}

C7_ModerationGate ==
    greq.route = "POST /comments" =>
        /\ CommentsCalled =>
              /\ ~modAns.err
              /\ modAns.status = 200
              /\ calls[1].svc = "commscheck"
        /\ (hpc = "done" /\ ModerationRefused) =>
              /\ written = <<[status |-> modAns.status, body |-> modAns.body]>>
              /\ ~CommentsCalled

(***************************************************************************)
(* C8: GET /news/{id} answers 500, and nothing else, when one of the two   *)
(* calls yields an error, whichever result arrives first; it answers 200   *)
(* only after both results were received without error.                    *)
(***************************************************************************)
C8_DetailErrors ==
    greq.route = "GET /news/{id}" =>
        /\ Len(written) <= 1
        /\ (hpc = "done" /\ \E w \in Workers : wres[w].kind = "error")
              => written = <<InternalError>>
        /\ (\E j \in DOMAIN received : received[j].kind = "error")
              => (hpc = "done" /\ written = <<InternalError>>)
        /\ (\E j \in DOMAIN written : written[j].status = 200) =>
              /\ Len(received) = Cardinality(Workers)
              /\ \A j \in DOMAIN received : received[j].kind # "error"
              /\ \A w \in Workers : wpc[w] = "sent" /\ wres[w].kind # "error"

\* the first result was a value, the second an error
C8_Witness ==
    /\ greq.route = "GET /news/{id}"
    /\ hpc = "done"
    /\ Len(received) = 2
    /\ received[1].kind = "comments"
    /\ received[2].kind = "error"
    /\ written = <<InternalError>>

(***************************************************************************)
(* C11: every downstream call of a request carries exactly one request-id, *)
(* the request-id of the incoming request; when the incoming request has   *)
(* none, one identifier is generated and all calls of the request carry    *)
(* that same identifier.                                                   *)
(***************************************************************************)
CarriedIds(k) ==
    { ParseQuery(calls[j].url.rawQuery)[k] : j \in DOMAIN calls }

C11_RequestIdCarried ==
    LET given == Get(ParseQuery(greq.rawQuery), "request-id")
    IN  calls # <<>> =>
           /\ CarriedIds("request-id") = {<<greq.rid>>}
           /\ greq.rid # <<>>
           /\ given # <<>> => greq.rid = given

\* both calls of a request without request-id were issued
C11_Witness ==
    /\ Len(calls) = 2
    /\ ParseQuery(greq.rawQuery)["request-id"] = <<>>
    /\ Len(greq.rid) = 18
    /\ CarriedIds("request-id") = {<<greq.rid>>}

\* both calls of a request whose request-id needs escaping were issued
C11_WitnessGiven ==
    /\ Len(calls) = 2
    /\ greq.rid = RPlus
    /\ CarriedIds("request-id") = {<<RPlus>>}

(***************************************************************************)
(* C12: in GET /news/{id} the comments call carries exactly one news-id,   *)
(* the id of the path, whatever the query of the incoming request holds.   *)
(***************************************************************************)
C12_NewsIdIsPathId ==
    greq.route = "GET /news/{id}" =>
        \A j \in DOMAIN calls :
            calls[j].svc = "comments" =>
                ParseQuery(calls[j].url.rawQuery)["news-id"] = <<greq.id>>

\* the client sent news-id=9 on /news/7+ and the comments call was issued
C12_Witness ==
    /\ greq.route = "GET /news/{id}"
    /\ greq.id = <<"7", "+">>
    /\ ParseQuery(greq.rawQuery)["news-id"] = <<<<"9">>>>
    /\ \E j \in DOMAIN calls :
          /\ calls[j].svc = "comments"
          /\ Get(ParseQuery(calls[j].url.rawQuery), "news-id") = greq.id

(***************************************************************************)
(* C13: POST /comments of the comments service answers 400 for a comment   *)
(* exactly when its news_id and reply_id are both zero; a comment with     *)
(* news_id = 0 that answers an existing comment is created (201) and       *)
(* stored with the news_id of that comment.                                *)
(***************************************************************************)
LastRow == commentsTbl[Len(commentsTbl)]

RefersToStored(c) ==
    /\ c.NewsID = 0
    /\ c.ReplyID > 0
    /\ \E j \in DOMAIN commentsTbl :
          commentsTbl[j].id = c.ReplyID /\ commentsTbl[j].id # cex.id

DerivedNewsId(c) ==
    /\ cex.status = 201
    /\ LastRow.id = cex.id
    /\ \E j \in DOMAIN commentsTbl :
          /\ commentsTbl[j].id = c.ReplyID
          /\ LastRow.news_id = commentsTbl[j].news_id

C13_BadRequestOnlyWithoutIds ==
    (cex.op = "post" /\ cex.in # NotJSON) =>
        /\ cex.status = 400 <=> (cex.in.NewsID = 0 /\ cex.in.ReplyID = 0)
        /\ (RefersToStored(cex.in) /\ cex.in.PostedAt > 0 /\ cex.status # 500)
              => DerivedNewsId(cex.in)

\* the same for the repository alone: Create derives the news_id
C13_CreateDerivesNewsId ==
    (cex.op = "create" /\ RefersToStored(cex.in) /\ cex.in.PostedAt > 0
        /\ cex.status # 500)
        => DerivedNewsId(cex.in)

C13_CreateDerivesWitness ==
    /\ cex.op = "create"
    /\ RefersToStored(cex.in)
    /\ DerivedNewsId(cex.in)

(***************************************************************************)
(* C14: GET /news/{id} of the news service answers 200 with the item when  *)
(* the lookup found it, 404 when no row has the id, and 500 when the       *)
(* lookup failed for another reason.                                       *)
(***************************************************************************)
C14_ItemStatus ==
    (nex.op = "item" /\ nex.called) =>
        /\ nex.err = "" =>
              /\ nex.status = 200
              /\ \E j \in DOMAIN store : nex.item = ScanItem(store[j])
        /\ nex.err = "no rows" => nex.status = 404
        /\ nex.err = "failed" => nex.status = 500

(***************************************************************************)
(* C15: a date with one of the prefixes gte:, lte:, gt:, lt: or without    *)
(* prefix, alone or with a dateEnd with prefix lt: or lte:, is accepted:   *)
(* the filter holds the operator of the prefix and the Unix seconds of     *)
(* the date, and the answer is not 400.                                    *)
(***************************************************************************)
PrefixOperator(pre) ==
    CASE pre = "gte" -> ">="
      [] pre = "lte" -> "<="
      [] pre = "gt" -> ">"
      [] pre = "lt" -> "<"
      [] OTHER -> "="

ValidDates == {D2012, D2013, D1970}

OtherParamsFine ==
    /\ nex.params.page # <<<<"x">>>>
    /\ nex.params.sortBy # <<"rating">>

Expected(pre, dt) == TimeFilter(ParseDate(dt).unix, PrefixOperator(pre))

C15_DatePrefixes ==
    (nex.op = "items" /\ OtherParamsFine) =>
        \A pre \in DatePrefixes, dt \in ValidDates :
            nex.params.date = <<PrefixText(pre) \o dt>> =>
                /\ nex.params.dateEnd = <<>> =>
                      /\ nex.status # 400
                      /\ nex.f.Date = Expected(pre, dt)
                /\ \A pe \in {"lt", "lte"}, de \in ValidDates :
                      nex.params.dateEnd = <<PrefixText(pe) \o de>> =>
                          /\ nex.status # 400
                          /\ nex.f.Date = Expected(pre, dt)
                          /\ nex.f.EndDate = Expected(pe, de)

\* the prefixes the parser knows: gte: and lte: on date, lte: on dateEnd
C15_KnownPrefixes ==
    (nex.op = "items" /\ OtherParamsFine) =>
        \A pre \in {"", "gte", "lte"}, dt \in ValidDates \ {D1970} :
            nex.params.date = <<PrefixText(pre) \o dt>> =>
                /\ nex.params.dateEnd = <<>> =>
                      /\ nex.status # 400
                      /\ nex.f.Date = Expected(pre, dt)
                /\ \A de \in ValidDates :
                      nex.params.dateEnd = <<PrefixText("lte") \o de>> =>
                          /\ nex.status # 400
                          /\ nex.f.Date = Expected(pre, dt)
                          /\ nex.f.EndDate = Expected("lte", de)

(***************************************************************************)
(* C16: GET /news answers 400 when dateEnd comes without date and when     *)
(* dateEnd has no prefix or the prefix gte: or gt:; a filter returned      *)
(* without error has an end_date only together with a date, and only with  *)
(* the operator < or <=.                                                   *)
(***************************************************************************)
C16_EndDateNeedsDate ==
    nex.op = "items" =>
        /\ (nex.params.dateEnd # <<>> /\ nex.params.date = <<>>)
              => nex.status = 400
        /\ (\E pe \in {"", "gte", "gt"}, de \in {D2013, DNoDay} :
                nex.params.dateEnd = <<PrefixText(pe) \o de>>)
              => nex.status = 400
        /\ nex.status = 400 <=> nex.perr
        /\ (~nex.perr /\ nex.f.EndDate # NoTime) =>
              /\ nex.f.Date # NoTime
              /\ nex.f.Date.Value # 0
              /\ nex.f.EndDate.Operator \in {"<", "<="}

\* dateEnd=lte:2013-03-01 alone: parsed, then refused for the missing date
C16_Witness ==
    /\ nex.op = "items"
    /\ nex.params.date = <<>>
    /\ nex.params.dateEnd = <<PrefixText("lte") \o D2013>>
    /\ OtherParamsFine
    /\ nex.status = 400
    /\ nex.f.EndDate = TimeFilter(1362096000, "<=")

\* date=gte:2012-12-31 with dateEnd=lte:2013-03-01 is accepted
C16_WitnessAccepted ==
    /\ nex.op = "items"
    /\ nex.params.date = <<PrefixText("gte") \o D2012>>
    /\ nex.params.dateEnd = <<PrefixText("lte") \o D2013>>
    /\ ~nex.perr
    /\ nex.f.Date = TimeFilter(1356912000, ">=")
    /\ nex.f.EndDate = TimeFilter(1362096000, "<=")

(***************************************************************************)
(* C17: a comment created with author.id = 0 gets a new author row and is  *)
(* stored under its generated id, which the comment adopts; with           *)
(* author.id > 0 the author is inserted only when the id is absent; no     *)
(* creation changes a stored author, and the comment read back carries     *)
(* the name stored first.                                                  *)
(***************************************************************************)
ReadBack(au, tbl, row) ==
    LET got == Read(au, tbl, row.news_id).coms
    IN  { got[j].AuthorName : j \in { x \in DOMAIN got : got[x].ID = row.id } }

C17_AuthorUpsert ==
    [][ cex'.op \in {"post", "create"} =>
          IF cex'.status # 201
          THEN authors' = authors /\ commentsTbl' = commentsTbl
          ELSE LET c == cex'.in
                   row == commentsTbl'[Len(commentsTbl')]
               IN  /\ authors \subseteq authors'
                   /\ \A a, b \in authors' : a.id = b.id => a = b
                   /\ c.AuthorID = 0 =>
                         /\ row.author_id \notin AuthorIds(authors)
                         /\ authors' = authors
                                \cup {AuthorRow(row.author_id, c.AuthorName)}
                         /\ cex'.c.AuthorID = row.author_id
                   /\ c.AuthorID > 0 =>
                         /\ row.author_id = c.AuthorID
                         /\ authors' =
                               IF c.AuthorID \in AuthorIds(authors) THEN authors
                               ELSE authors
                                      \cup {AuthorRow(c.AuthorID, c.AuthorName)}
                   /\ ReadBack(authors', commentsTbl', row) =
                         {IF c.AuthorID \in AuthorIds(authors)
                          THEN NameOf(authors, c.AuthorID)
                          ELSE c.AuthorName} ]_vars

\* a comment sent as author 1 "bob" while author 1 is stored as "alice"
C17_Witness ==
    /\ cex.op = "post"
    /\ cex.status = 201
    /\ cex.in.AuthorID = 1
    /\ cex.in.AuthorName = "bob"
    /\ AuthorRow(1, "alice") \in authors
    /\ ReadBack(authors, commentsTbl, LastRow) = {"alice"}

(***************************************************************************)
(* C18: a worker that has its result can always send it (the channel has   *)
(* room), so under fair scheduling of the workers every worker ends its    *)
(* send, whether the handler is still receiving or has returned.           *)
(***************************************************************************)
C18_WorkersSend ==
    /\ [](\A w \in Workers : wpc[w] = "got" => Len(ch) < ChanCap)
    /\ \A w \in Workers : (wpc[w] = "start") ~> (wpc[w] = "sent")

\* the handler returned after the first error and the late worker has sent
C18_Witness ==
    /\ hpc = "done"
    /\ Len(received) = 1
    /\ received[1].kind = "error"
    /\ \A w \in Workers : wpc[w] = "sent"
    /\ Len(ch) = 1

(***************************************************************************)
(* C19: once the context of the handler is done (its deadline expired, or  *)
(* the handler returned and cancelled it) no GET of the request is in      *)
(* flight.                                                                 *)
(***************************************************************************)
C19_SharedDeadline ==
    hctx \in {"expired", "cancelled"} =>
        \A w \in Workers : wpc[w] # "inflight"

RECURSIVE SumPages(_, _)
SumPages(pages, p) ==
    IF p > MaxPage THEN 0 ELSE Len(pages[p].items) + SumPages(pages, p + 1)

C9_CountIsSumOfPages ==
    q.op = "paginate" =>
        /\ \A p \in 1..MaxPage : Len(q.pages[p].items) <= PageSize
        /\ q.count.c = SumPages(q.pages, 1)

\* the same, for the filters whose Items statement the store accepts
C9_CountIsSumOfAcceptedPages ==
    (q.op = "paginate" /\ ~Rejected(ItemsStatement(q.filter))) =>
        /\ \A p \in 1..MaxPage :
              ~q.pages[p].err /\ Len(q.pages[p].items) <= PageSize
        /\ ~q.count.err
        /\ q.pages[MaxPage].items = <<>>
        /\ q.count.c = SumPages(q.pages, 1)

(***************************************************************************)
(* C10: after any sequence of AddItems calls no two rows share a link; an  *)
(* item whose link is stored is ignored, the stored row stays as it is,    *)
(* and ItemByLink returns the row stored first.                            *)
(***************************************************************************)
UniqueLinks(rows) ==
    \A a, b \in DOMAIN rows : a # b => rows[a].link # rows[b].link

C10_LinksUnique ==
    [][ /\ UniqueLinks(store')
        /\ Len(store') >= Len(store)
        /\ \A j \in DOMAIN store : store'[j] = store[j]
        /\ q'.op = "bylink" =>
              IF \E j \in DOMAIN store : store[j].link = q'.link
              THEN \E j \in DOMAIN store :
                      /\ store[j].link = q'.link
                      /\ q'.res = [err |-> FALSE, item |-> ScanItem(store[j])]
              ELSE q'.res.err ]_vars

\* a batch repeated link 1 with another title; the first stored row is read
C10_Witness ==
    /\ q.op = "bylink"
    /\ ~q.res.err
    /\ adds = MaxAdds
    /\ ~lastErr
    /\ \E j \in DOMAIN lastBatch :
          /\ lastBatch[j].Link = q.link
          /\ lastBatch[j].Title # q.res.item.Title
    /\ \E j \in DOMAIN store : ScanItem(store[j]) = q.res.item

(***************************************************************************)
(* C21: after a signal was taken by the news service, the HTTP server is   *)
(* shut down before the root context is cancelled, and run returns in the  *)
(* end; it returns only after the server goroutine, the stream writer and  *)
(* the error logger have finished, and the error logger finishes only      *)
(* after the poller closed errs, which it does only after cancellation.    *)
(* A server that failed to bind its address ends the process (log.Fatal)   *)
(* and is no case of the claim.                                            *)
(***************************************************************************)
ShutDown == shpc = "done" /\ srvpc # "serving" /\ conns = 0

GoroutinesDone == srvpc = "done" /\ swpc = "done" /\ elpc = "done"

C21_Order ==
    /\ ctx = "cancelled" => ShutDown
    /\ runpc = "returned" => GoroutinesDone /\ wg = 0
    /\ elpc = "done" => closed
    /\ closed => ctx = "cancelled"

SignalTaken == stop = "taken" /\ srvpc \notin {"start", "fatal"}

BuiltPages == (-1)..MaxPage

Bound(stmt) == SelectSeq(stmt.sql, LAMBDA c : c.ph # 0)

ConsecutivePlaceholders(stmt) ==
    /\ Len(Bound(stmt)) = Len(stmt.args)
    /\ \A j \in DOMAIN Bound(stmt) : Bound(stmt)[j].ph = j

ClauseOrder(c) ==
    CASE c.t = "select" -> 0
      [] c.t \in {"fts", "cmp"} -> 1
      [] c.t = "order" -> 2
      [] c.t = "limit" -> 3
      [] c.t = "offset" -> 4

InClauseOrder(stmt) ==
    \A j, k \in DOMAIN stmt.sql :
        j < k => ClauseOrder(stmt.sql[j]) <= ClauseOrder(stmt.sql[k])

\* the value the clause c of a statement built for f is about
BelongsTo(c, arg, f) ==
    CASE c.t \in {"fts", "order"} -> arg = searchStr(f)
      [] c.t = "cmp" -> \/ c.op = f.Date.Operator /\ arg = f.Date.Value
                        \/ c.op = f.EndDate.Operator /\ arg = f.EndDate.Value
      [] c.t = "limit" -> Num(arg) = PageSize
      [] c.t = "offset" -> Num(arg) = (Num(f.Page) - 1) * PageSize

WellBound(stmt, f) ==
    /\ ConsecutivePlaceholders(stmt)
    /\ InClauseOrder(stmt)
    /\ \A j \in DOMAIN Bound(stmt) :
          BelongsTo(Bound(stmt)[j], stmt.args[j], f)

C22_Placeholders ==
    q.op = "paginate" =>
        /\ WellBound(CountStatement(q.filter), q.filter)
        /\ \A p \in BuiltPages :
              LET f == [q.filter EXCEPT !.Page = GoInt(p)]
              IN  WellBound(ItemsStatement(f), f)

\* a filter with search, both dates and the order by rank: six arguments on
\* page 2, the search string bound twice
C22_Witness ==
    /\ q.op = "paginate"
    /\ Len(ItemsStatement([q.filter EXCEPT !.Page = GoInt(2)]).args) = 6
    /\ Len(CountStatement(q.filter).args) = 3
    /\ ~q.pages[2].err

(***************************************************************************)
(* C23: for page < 1 the Items statement has neither LIMIT nor OFFSET; for *)
(* every page >= 1, page 1 included, it has a LIMIT clause bound to        *)
(* PageSize and an OFFSET clause bound to (page-1)*PageSize.               *)
(***************************************************************************)
HasClause(stmt, t) == Len(ClausesOf(stmt, t)) = 1

LimitOffsetAsSpecified(stmt, p) ==
    IF p < 1
    THEN ~HasClause(stmt, "limit") /\ ~HasClause(stmt, "offset")
    ELSE /\ HasClause(stmt, "limit") /\ LimitOf(stmt) = PageSize
         /\ HasClause(stmt, "offset") /\ OffsetOf(stmt) = (p - 1) * PageSize

C23_LimitOffset ==
    q.op = "paginate" =>
        \A p \in BuiltPages :
            LimitOffsetAsSpecified(ItemsStatement([q.filter EXCEPT !.Page = GoInt(p)]),
                                   p)

(***************************************************************************)
(* C24: the pubDate of an item is decoded with the first layout of the     *)
(* list that parses it, and the item carries the Unix seconds of that      *)
(* parse; when no layout parses the text, the item carries pub_date 0.     *)
(***************************************************************************)
Parsing(text) == { j \in DOMAIN layouts : ~timeParse(layouts[j], text).err }

FirstParsing(text) == CHOOSE j \in Parsing(text) : \A k \in Parsing(text) : j <= k

C24_FirstLayoutWins ==
    (feed.op = "decoded" /\ feed.el.hasPubDate) =>
        /\ Len(feed.res.items) = 1
        /\ feed.res.items[1].PubDate =
              IF Parsing(feed.el.pubDate) = {} THEN ZeroUnix
              ELSE timeParse(layouts[FirstParsing(feed.el.pubDate)],
                             feed.el.pubDate).t

\* the part of C24 the code keeps: a text that some layout parses gives the
\* item the time of the first such layout
C24_ParsedByFirst ==
    (feed.op = "decoded" /\ Parsing(feed.el.pubDate) # {}) =>
        /\ Len(feed.res.items) = 1
        /\ feed.res.items[1].PubDate =
              timeParse(layouts[FirstParsing(feed.el.pubDate)],
                        feed.el.pubDate).t

(***************************************************************************)
(* C25: AddItem runs its INSERT inside the transaction it opens: whenever  *)
(* AddItem returns an error (Begin, Exec or Commit failed) the rows of     *)
(* news are those of before the call.                                      *)
(***************************************************************************)
C25_AddItemInTransaction == [][AddItem => (lastErr' => store' = store)]_vars

(***************************************************************************)
(* C26: GET /news/{id} answers 200 only if the news service and the        *)
(* comments service both answered their call with status 200; an answer    *)
(* with another status never becomes a composite answer 200.               *)
(***************************************************************************)
BothAnswered200 ==
    \A w \in Workers : ~answers[w].err /\ answers[w].status = 200

C26_CompositeOnlyFrom200 ==
    (greq.route = "GET /news/{id}" /\ written # <<>> /\ written[1].status = 200)
        => BothAnswered200

(***************************************************************************)
(* C27: the response body of every downstream call is read to its end      *)
(* before the context of the call is cancelled: when the caller reads the  *)
(* body (forwardReq, the moderation answer passed on, the decoding of the  *)
(* fan-out results) the context is still live and the whole body arrives.  *)
(***************************************************************************)
C27_BodyReadBeforeCancel ==
    \A svc \in Services :
        answers[svc].reads => answers[svc].c = "live" /\ answers[svc].whole

(***************************************************************************)
(* C28: total_pages and the page of one answer of GET /news describe the   *)
(* same rows, also when items are inserted between the count and the page  *)
(* query: an answer 200 (a page with rows) has page_number <= total_pages. *)
(***************************************************************************)
C28_PageWithinTotal ==
    (nex.op = "items" /\ nex.status = 200)
        => Num(nex.page.CurrentPage) <= nex.page.TotalPages

(***************************************************************************)
(* C29: for every page >= 1 that parseQP accepts the offset is             *)
(* (page-1)*PageSize, computed without overflow, and it is applied: a page *)
(* number beyond the last page gives an empty page (204), never rows.      *)
(***************************************************************************)
BeyondLastPage ==
    /\ nex.op = "items"
    /\ ~nex.perr
    /\ nex.status # 500
    /\ Positive(nex.f.Page)
    /\ Num(nex.f.Page) > nex.page.TotalPages

C29_PastTheEndIsEmpty ==
    BeyondLastPage => nex.status = 204 /\ nex.page.PageData = <<>>


(***************************************************************************)
(* C30: in the statements built for a filter that parseQP produced, each   *)
(* comparison operator written into the text is one of =, <, <=, >, >=,    *)
(* each sort column written into it is one of pub_date, title, rank, and   *)
(* what the client supplied (search and exclude terms, dates, limit,       *)
(* offset) is in the arguments, behind a placeholder, never in the text.   *)
(***************************************************************************)
SortColumns == {"pub_date", "title", "rank"}

\* the words of the text of a statement
TextOf(stmt) ==
    UNION { {stmt.sql[j].kw, stmt.sql[j].col, stmt.sql[j].op} :
            j \in DOMAIN stmt.sql }

\* the search and exclude terms of a request
TermsOf(params) ==
    { params["s"][j] : j \in DOMAIN params["s"] }
        \cup { params["exc"][j] : j \in DOMAIN params["exc"] }

FixedText(stmt) ==
    \A j \in DOMAIN stmt.sql :
        LET c == stmt.sql[j]
        IN  /\ c.t = "cmp" => c.op \in Operators /\ c.col = "pub_date"
            /\ c.t = "order" /\ c.ph = 0 => c.col \in SortColumns
            /\ c.t \in {"fts", "cmp", "limit", "offset"} =>
                   c.ph \in DOMAIN stmt.args

\* the search string, the dates and the limit are arguments of the statement
ValuesBound(stmt, f) ==
    /\ Len(f.TitleSearch) > 0 =>
           \E j \in DOMAIN stmt.sql :
               /\ stmt.sql[j].t = "fts"
               /\ stmt.args[stmt.sql[j].ph] = searchStr(f)
    /\ f.Date.Value > 0 =>
           \E j \in DOMAIN stmt.sql :
               /\ stmt.sql[j].t = "cmp"
               /\ stmt.args[stmt.sql[j].ph] = f.Date.Value

OnlyBound(stmt, f, params) ==
    /\ FixedText(stmt)
    /\ ValuesBound(stmt, f)
    /\ TextOf(stmt) \cap TermsOf(params) = {}

C30_ValuesOnlyBound ==
    nex.op = "items" /\ ~nex.perr =>
        /\ OnlyBound(CountStatement(nex.f), nex.f, nex.params)
        /\ OnlyBound(ItemsStatement(nex.f), nex.f, nex.params)

\* a search with an excluded term between two dates, ordered by match: the
\* text has both comparisons and the ts_rank order, five arguments are bound
C30_Witness ==
    /\ nex.op = "items"
    /\ ~nex.perr
    /\ nex.f.TitleSearch = <<"go">>
    /\ nex.f.Exclude = <<"db">>
    /\ nex.f.Date.Operator = ">="
    /\ nex.f.EndDate.Operator = "<="
    /\ nex.f.SortBy = Rank
    /\ Len(ItemsStatement(nex.f).args) = 5
    /\ nex.status \in {200, 204}

=============================================================================
